---- MODULE Spec2Model ----
(***************************************************************************)
(* Model of the numeric core of the PM-Manifest analytics scripts:         *)
(*   scripts/manifest_analysis.py     compute_shift_share_drivers          *)
(*   scripts/agent_runner.py          run_rca_interaction_rate             *)
(*   scripts/daily_engagement_average.py  calculate_trend_analysis         *)
(* and of the control flow of                                              *)
(*   scripts/agent_runner.py          main, detect_counter_event,          *)
(*                                    get_event_total                      *)
(*   scripts/lotus_widget_daily_count.py  lotus_widget_daily_count         *)
(*   scripts/es_fetch.py              search_all                           *)
(*   scripts/store_lookup.py          get_store_id_from_name               *)
(*                                                                         *)
(* Python floats are modelled by exact rationals [n |-> Int, d |-> Int]    *)
(* in lowest terms with d > 0.  A square root (std_dev = variance ** 0.5)  *)
(* is kept as the non-negative root of its rational radicand, and every    *)
(* comparison against it is carried out on the squares.  A float that was  *)
(* rounded on the way lies next to its exact value; where the exact value  *)
(* sits on a threshold or ties with another one, the comparison of the     *)
(* floats goes by the side the rounding took, which fp holds.              *)
(***************************************************************************)
EXTENDS Integers, Sequences, FiniteSets, TLC

VARIABLES
    pc,          \* position of the caller: "start" before the call, then the name of what returned
    args,        \* arguments of compute_shift_share_drivers / inputs of run_rca_interaction_rate
    keys,        \* the key set the decomposition loop iterated (manifest_analysis.py:141)
    drivers,     \* the dict returned by compute_shift_share_drivers
    rca,         \* the dict returned by run_rca_interaction_rate
    daily_sums,  \* argument of calculate_trend_analysis
    result,      \* the dict returned by calculate_trend_analysis, or the value another handler returned
    calls,       \* the calls a handler has made to the functions and services it uses, in order
    fp,          \* the side on which rounded float results fell where the exact value cannot tell
    heap         \* the objects of a caller that calls twice: heap[ref] is the object behind reference ref

vars == <<pc, args, keys, drivers, rca, daily_sums, result, calls, fp, heap>>

-----------------------------------------------------------------------------
(* Exact rational arithmetic standing for Python float arithmetic.         *)

Abs(x) == IF x < 0 THEN -x ELSE x

RECURSIVE Gcd(_, _)
Gcd(a, b) == IF b = 0 THEN a ELSE Gcd(b, a % b)

\* n/d in lowest terms with a positive denominator (d # 0).
Frac(n, d) ==
    LET s == IF d < 0 THEN -1 ELSE 1
        g == Gcd(Abs(n), Abs(d))
    IN  [n |-> (s * n) \div g, d |-> (s * d) \div g]

\* float(i) of an integer count.
FromInt(i) == [n |-> i, d |-> 1]

RZero == FromInt(0)

RAdd(x, y) == Frac(x.n * y.d + y.n * x.d, x.d * y.d)
RSub(x, y) == Frac(x.n * y.d - y.n * x.d, x.d * y.d)
RMul(x, y) == Frac(x.n * y.n, x.d * y.d)
\* x / y for y # 0 (every division of the source is guarded).
RDiv(x, y) == Frac(x.n * y.d, x.d * y.n)
RNeg(x)    == [n |-> -x.n, d |-> x.d]
RAbs(x)    == [n |-> Abs(x.n), d |-> x.d]
RLt(x, y)  == x.n * y.d < y.n * x.d
RLe(x, y)  == x.n * y.d <= y.n * x.d
RGt(x, y)  == RLt(y, x)
RIsZero(x) == x.n = 0

\* A float holds a rational of the model without rounding iff its
\* denominator is a power of two (the numerators stay far below 2 ** 53).
RECURSIVE IsPowerOfTwo(_)
IsPowerOfTwo(d) == d = 1 \/ (d > 1 /\ d % 2 = 0 /\ IsPowerOfTwo(d \div 2))

Representable(x) == IsPowerOfTwo(x.d)

IsSquareNumber(k) == \E r \in 0..k : r * r = k

\* x ** 0.5 is a rational, which the float power returns without rounding.
HasExactRoot(x) == x.n >= 0 /\ IsSquareNumber(x.n) /\ IsSquareNumber(x.d)

-----------------------------------------------------------------------------
(* Bounds of the model.                                                    *)

MaxCount == 2
MaxTotal == 3
MaxTopX  == 2

CohortKeys == {"a", "b"}

\* The counts a mapping may hold for a key: cohort "a" takes every case
\* (zero, small, large), cohort "b" is a cohort of one visit and one click.
VisitCounts(k) == IF k = "a" THEN {0, 1, MaxCount} ELSE {1}
ClickCounts(k) == IF k = "a" THEN {0, MaxCount} ELSE {1}

\* The dicts from some of the cohort keys to counts.
VisitMappings ==
    {m \in UNION {[ks -> 0..MaxCount] : ks \in SUBSET CohortKeys} :
        \A k \in DOMAIN m : m[k] \in VisitCounts(k)}
ClickMappings ==
    {m \in UNION {[ks -> 0..MaxCount] : ks \in SUBSET CohortKeys} :
        \A k \in DOMAIN m : m[k] \in ClickCounts(k)}

\* The clicks and visits totals of one period; they need not be the sums
\* of the per-cohort counts.
PeriodTotals == {<<0, 0>>, <<1, 0>>, <<1, MaxTotal>>}

\* The values of --top-x.
TopXs == {1, MaxTopX}

\* dict.get(k, 0.0)
Get(m, k) == IF k \in DOMAIN m THEN FromInt(m[k]) ELSE RZero

-----------------------------------------------------------------------------
(* manifest_analysis.py: compute_shift_share_drivers                      *)

\* Mutant of SafeRate: the zero-denominator guard hands back the numerator.
SafeRateUnguarded(c, v) == IF ~RIsZero(v) THEN RDiv(c, v) ELSE c

\* def safe_rate(c, v): return (c / v) if v else 0.0
SafeRate(c, v) == IF ~RIsZero(v) THEN RDiv(c, v) ELSE RZero

\* def safe_share(v, total): return (v / total) if total else 0.0
SafeShare(v, total) == IF ~RIsZero(total) THEN RDiv(v, total) ELSE RZero

\* Mutant of ShiftShareKeys: only the current-period visits mapping supplies
\* keys.
ShiftShareKeysCurrentOnly(a) == DOMAIN a.per_key_visits_cur

\* keys = set(list(per_key_visits_cur.keys()) + list(per_key_visits_prev.keys()))
ShiftShareKeys(a) == DOMAIN a.per_key_visits_cur \cup DOMAIN a.per_key_visits_prev

\* The term one key adds to rate_effect in the loop body.
RateTerm(a, k) ==
    LET v_cur    == Get(a.per_key_visits_cur, k)
        v_prev   == Get(a.per_key_visits_prev, k)
        c_cur    == Get(a.per_key_clicks_cur, k)
        c_prev   == Get(a.per_key_clicks_prev, k)
        r_i_cur  == SafeRate(c_cur, v_cur)
        r_i_prev == SafeRate(c_prev, v_prev)
        w_i_cur  == SafeShare(v_cur, FromInt(a.total_visits_cur))
        w_i_prev == SafeShare(v_prev, FromInt(a.total_visits_prev))
        w_i_avg  == RDiv(RAdd(w_i_cur, w_i_prev), FromInt(2))
    IN  RMul(w_i_avg, RSub(r_i_cur, r_i_prev))

\* The term one key adds to mix_effect in the loop body.
MixTerm(a, k) ==
    LET v_cur    == Get(a.per_key_visits_cur, k)
        v_prev   == Get(a.per_key_visits_prev, k)
        c_prev   == Get(a.per_key_clicks_prev, k)
        r_i_prev == SafeRate(c_prev, v_prev)
        w_i_cur  == SafeShare(v_cur, FromInt(a.total_visits_cur))
        w_i_prev == SafeShare(v_prev, FromInt(a.total_visits_prev))
    IN  RMul(RSub(w_i_cur, w_i_prev), r_i_prev)

\* rate_effect after the loop: for k in keys: rate_effect += w_i_avg * (r_i_cur - r_i_prev)
RECURSIVE SumRateTerms(_, _)
SumRateTerms(a, ks) ==
    IF ks = {} THEN RZero
    ELSE LET k == CHOOSE x \in ks : TRUE
         IN  RAdd(SumRateTerms(a, ks \ {k}), RateTerm(a, k))

\* mix_effect after the loop: for k in keys: mix_effect += (w_i_cur - w_i_prev) * r_i_prev
RECURSIVE SumMixTerms(_, _)
SumMixTerms(a, ks) ==
    IF ks = {} THEN RZero
    ELSE LET k == CHOOSE x \in ks : TRUE
         IN  RAdd(SumMixTerms(a, ks \ {k}), MixTerm(a, k))

\* Mutant of Residual: the mix effect is forgotten in the balance.
ResidualIgnoringMix(total_delta, rate_effect, mix_effect, volume_effect) ==
    RSub(total_delta, RAdd(rate_effect, volume_effect))

\* residual = total_delta - (rate_effect + mix_effect + volume_effect)
Residual(total_delta, rate_effect, mix_effect, volume_effect) ==
    RSub(total_delta, RAdd(RAdd(rate_effect, mix_effect), volume_effect))

\* Mutant of ComputeShiftShareDrivers: the residual is folded into mix_effect.
ComputeShiftShareDriversResidualInMix(a) ==
    LET r_cur  == SafeRate(FromInt(a.total_clicks_cur), FromInt(a.total_visits_cur))
        r_prev == SafeRate(FromInt(a.total_clicks_prev), FromInt(a.total_visits_prev))
        ks     == DOMAIN a.per_key_visits_cur \cup DOMAIN a.per_key_visits_prev
        rate_effect   == SumRateTerms(a, ks)
        mix_effect    == SumMixTerms(a, ks)
        total_delta   == RSub(r_cur, r_prev)
        residual      == RSub(total_delta, RAdd(rate_effect, mix_effect))
    IN  [rate_effect   |-> RMul(rate_effect, FromInt(100)),
         mix_effect    |-> RMul(RAdd(mix_effect, residual), FromInt(100)),
         volume_effect |-> RZero,
         delta_rate    |-> RMul(total_delta, FromInt(100))]

\* The whole function: the returned dict.
ComputeShiftShareDrivers(a) ==
    LET r_cur  == SafeRate(FromInt(a.total_clicks_cur), FromInt(a.total_visits_cur))
        r_prev == SafeRate(FromInt(a.total_clicks_prev), FromInt(a.total_visits_prev))
        ks     == ShiftShareKeys(a)
        rate_effect   == SumRateTerms(a, ks)
        mix_effect    == SumMixTerms(a, ks)
        volume_effect == RZero
        total_delta   == RSub(r_cur, r_prev)
        residual      == Residual(total_delta, rate_effect, mix_effect, volume_effect)
    IN  [rate_effect   |-> RMul(RAdd(rate_effect, residual), FromInt(100)),
         mix_effect    |-> RMul(mix_effect, FromInt(100)),
         volume_effect |-> volume_effect,
         delta_rate    |-> RMul(total_delta, FromInt(100))]

-----------------------------------------------------------------------------
(* agent_runner.py: run_rca_interaction_rate                              *)

\* manifest_analysis.py: compute_interaction_rate_from_counts
ComputeInteractionRateFromCounts(clicks, visits) ==
    IF RLe(visits, RZero) THEN RZero
    ELSE RMul(RDiv(clicks, visits), FromInt(100))

\* Mutant of RcaKeys: only the visits mappings supply keys.
RcaKeysVisitsOnly(a) == DOMAIN a.per_key_visits_cur \cup DOMAIN a.per_key_visits_prev

\* keys = set(visits_cur keys + visits_prev keys + clicks_cur keys + clicks_prev keys)
RcaKeys(a) ==
    DOMAIN a.per_key_visits_cur \cup DOMAIN a.per_key_visits_prev
        \cup DOMAIN a.per_key_clicks_cur \cup DOMAIN a.per_key_clicks_prev

\* The orders in which "for k in keys" may visit a set (set iteration order
\* of str keys depends on the process's hash seed).
IterationOrders(S) ==
    {o \in [1..Cardinality(S) -> S] : \A i, j \in 1..Cardinality(S) : o[i] = o[j] => i = j}

\* Mutant of CohortRow: with no current-period visits at all every share is
\* 0 instead of the cohort's visits divided by 1.
CohortRowZeroShare(a, k) ==
    LET v_cur  == Get(a.per_key_visits_cur, k)
        c_cur  == Get(a.per_key_clicks_cur, k)
        v_prev == Get(a.per_key_visits_prev, k)
        c_prev == Get(a.per_key_clicks_prev, k)
        r_cur_k  == ComputeInteractionRateFromCounts(c_cur, v_cur)
        r_prev_k == ComputeInteractionRateFromCounts(c_prev, v_prev)
        share  == IF a.total_visits_cur > 0
                  THEN RDiv(v_cur, FromInt(a.total_visits_cur)) ELSE RZero
    IN  [key |-> k, visits |-> v_cur, clicks |-> c_cur, rate |-> r_cur_k,
         visits_prev |-> v_prev, clicks_prev |-> c_prev, rate_prev |-> r_prev_k,
         contribution_to_delta |-> RMul(share, RSub(r_cur_k, r_prev_k))]

\* One cohort row, with its contribution_to_delta.
CohortRow(a, k) ==
    LET v_cur  == Get(a.per_key_visits_cur, k)
        c_cur  == Get(a.per_key_clicks_cur, k)
        v_prev == Get(a.per_key_visits_prev, k)
        c_prev == Get(a.per_key_clicks_prev, k)
        r_cur_k  == ComputeInteractionRateFromCounts(c_cur, v_cur)
        r_prev_k == ComputeInteractionRateFromCounts(c_prev, v_prev)
        total_v_cur == IF a.total_visits_cur > 0 THEN FromInt(a.total_visits_cur) ELSE FromInt(1)
        share  == RDiv(v_cur, total_v_cur)
    IN  [key |-> k, visits |-> v_cur, clicks |-> c_cur, rate |-> r_cur_k,
         visits_prev |-> v_prev, clicks_prev |-> c_prev, rate_prev |-> r_prev_k,
         contribution_to_delta |-> RMul(share, RSub(r_cur_k, r_prev_k))]

\* Mutant of SortByAbsContribution: the rows are ranked by the signed
\* contribution.
RECURSIVE SortBySignedContribution(_, _)
SortBySignedContribution(rows, rank) ==
    IF rows = <<>> THEN <<>>
    ELSE LET init == SortBySignedContribution(SubSeq(rows, 1, Len(rows) - 1), rank)
             x    == rows[Len(rows)]
             pos  == Cardinality({i \in 1..Len(init) :
                        RLe(x.contribution_to_delta, init[i].contribution_to_delta)})
         IN  SubSeq(init, 1, pos) \o <<x>> \o SubSeq(init, pos + 1, Len(init))

\* abs(x["contribution_to_delta"]) <= abs(y["contribution_to_delta"]) on the
\* floats: by the exact values, and between rows of one exact value by the
\* rank the rounding gave the floats.
AbsContributionLe(x, y, rank) ==
    LET ax == RAbs(x.contribution_to_delta)
        ay == RAbs(y.contribution_to_delta)
    IN  RLt(ax, ay) \/ (ax = ay /\ rank[x.key] <= rank[y.key])

\* sorted(rows, key=lambda r: abs(r["contribution_to_delta"]), reverse=True):
\* a stable sort, rows of equal key keep their order.
RECURSIVE SortByAbsContribution(_, _)
SortByAbsContribution(rows, rank) ==
    IF rows = <<>> THEN <<>>
    ELSE LET init == SortByAbsContribution(SubSeq(rows, 1, Len(rows) - 1), rank)
             x    == rows[Len(rows)]
             \* x goes after every row whose key is >= its own
             pos  == Cardinality({i \in 1..Len(init) :
                        AbsContributionLe(x, init[i], rank)})
         IN  SubSeq(init, 1, pos) \o <<x>> \o SubSeq(init, pos + 1, Len(init))

\* s[:n]: the first n elements, or for a negative n all but the last -n
Take(s, n) ==
    IF n >= 0 THEN SubSeq(s, 1, IF n < Len(s) THEN n ELSE Len(s))
    ELSE SubSeq(s, 1, IF Len(s) + n > 0 THEN Len(s) + n ELSE 0)

\* {r["key"]: r[field] for r in cohort_rows}, as the counts the rows were built from
RowMapping(a, ks, field) ==
    [k \in ks |-> IF k \in DOMAIN a[field] THEN a[field][k] ELSE 0]

\* The whole function for the given iteration order of the key set and the
\* given ranks of the float contributions.
RunRcaInteractionRate(a, order, top_x, rank) ==
    LET ks   == RcaKeys(a)
        rows == [i \in 1..Len(order) |-> CohortRow(a, order[i])]
        rate_cur  == ComputeInteractionRateFromCounts(FromInt(a.total_clicks_cur), FromInt(a.total_visits_cur))
        rate_prev == ComputeInteractionRateFromCounts(FromInt(a.total_clicks_prev), FromInt(a.total_visits_prev))
        passed == [a EXCEPT !.per_key_clicks_cur  = RowMapping(a, ks, "per_key_clicks_cur"),
                            !.per_key_visits_cur  = RowMapping(a, ks, "per_key_visits_cur"),
                            !.per_key_clicks_prev = RowMapping(a, ks, "per_key_clicks_prev"),
                            !.per_key_visits_prev = RowMapping(a, ks, "per_key_visits_prev")]
    IN  [summary |-> [rate_cur |-> rate_cur, rate_prev |-> rate_prev,
                      delta_rate |-> RSub(rate_cur, rate_prev)],
         cohortBreakdown |-> rows,
         topContributors |-> Take(SortByAbsContribution(rows, rank), top_x),
         drivers |-> ComputeShiftShareDrivers(passed),
         passed_keys |-> ShiftShareKeys(passed)]

-----------------------------------------------------------------------------
(* daily_engagement_average.py: calculate_trend_analysis                  *)
(* A day is [date |-> day number, sum_count |-> count]; ISO dates of one  *)
(* format compare as strings the way their day numbers compare.           *)

\* Mutant of SortByDate: the list is used in the order it was handed over.
SortByDateSkipped(days) == days

\* sorted(daily_sums, key=lambda x: x["date"]): a stable ascending sort.
RECURSIVE SortByDate(_)
SortByDate(days) ==
    IF days = <<>> THEN <<>>
    ELSE LET init == SortByDate(SubSeq(days, 1, Len(days) - 1))
             x    == days[Len(days)]
             \* x goes after every day whose date is <= its own
             pos  == Cardinality({i \in 1..Len(init) : init[i].date <= x.date})
         IN  SubSeq(init, 1, pos) \o <<x>> \o SubSeq(init, pos + 1, Len(init))

\* values = [day["sum_count"] for day in sorted_days]
ValuesOf(sorted_days) == [i \in 1..Len(sorted_days) |-> sorted_days[i].sum_count]

\* sum(values[lo:hi]) over the 1-based positions lo..hi
RECURSIVE SumRange(_, _, _)
SumRange(values, lo, hi) ==
    IF hi < lo THEN 0 ELSE SumRange(values, lo, hi - 1) + values[hi]

\* sorted(values): ascending
RECURSIVE SortAscending(_)
SortAscending(values) ==
    IF values = <<>> THEN <<>>
    ELSE LET init == SortAscending(SubSeq(values, 1, Len(values) - 1))
             x    == values[Len(values)]
             pos  == Cardinality({i \in 1..Len(init) : init[i] <= x})
         IN  SubSeq(init, 1, pos) \o <<x>> \o SubSeq(init, pos + 1, Len(init))

\* Mutant of DayOverDayChange: every day is compared with the first day.
DayOverDayChangeAgainstFirst(sorted_days, i) ==
    LET prev_value == sorted_days[1].sum_count
        curr_value == sorted_days[i].sum_count
    IN  [date |-> sorted_days[i].date,
         previous_date |-> sorted_days[1].date,
         current_value |-> curr_value,
         previous_value |-> prev_value,
         absolute_change |-> curr_value - prev_value,
         percentage_change |->
             IF prev_value = 0 THEN [n |-> 0, d |-> 1]
             ELSE [n |-> (curr_value - prev_value) * 100, d |-> prev_value]]

\* Mutant of DayOverDayChange: a rise from zero is reported as a 100% change.
DayOverDayChangeFromZeroIsFull(sorted_days, i) ==
    LET prev_value == sorted_days[i - 1].sum_count
        curr_value == sorted_days[i].sum_count
    IN  [date |-> sorted_days[i].date,
         previous_date |-> sorted_days[i - 1].date,
         current_value |-> curr_value,
         previous_value |-> prev_value,
         absolute_change |-> curr_value - prev_value,
         percentage_change |->
             IF prev_value = 0
             THEN (IF curr_value = 0 THEN RZero ELSE FromInt(100))
             ELSE RMul(Frac(curr_value - prev_value, prev_value), FromInt(100))]

\* The change record of sorted day i (i >= 2) against day i - 1.
DayOverDayChange(sorted_days, i) ==
    LET prev_value == sorted_days[i - 1].sum_count
        curr_value == sorted_days[i].sum_count
        pct_change == IF prev_value = 0 THEN RZero
                      ELSE RMul(Frac(curr_value - prev_value, prev_value), FromInt(100))
    IN  [date |-> sorted_days[i].date,
         previous_date |-> sorted_days[i - 1].date,
         current_value |-> curr_value,
         previous_value |-> prev_value,
         absolute_change |-> curr_value - prev_value,
         percentage_change |-> pct_change]

\* for i in range(1, len(sorted_days)): day_over_day_changes.append(...)
DayOverDayChanges(sorted_days) ==
    [j \in 1..(Len(sorted_days) - 1) |-> DayOverDayChange(sorted_days, j + 1)]

\* Mutant of MovingAverage: the sum is always divided by the full window.
MovingAverageFixedDivisor(values, i, window) ==
    LET start == IF i - (window - 1) > 1 THEN i - (window - 1) ELSE 1
    IN  Frac(SumRange(values, start, i), window)

\* The moving average of the given window at 1-based position i:
\* start = max(0, i - (window - 1)); sum(values[start:i + 1]) / (i - start + 1)
MovingAverage(values, i, window) ==
    LET start == IF i - (window - 1) > 1 THEN i - (window - 1) ELSE 1
    IN  Frac(SumRange(values, start, i), i - start + 1)

\* Mutant of Mean: the sum is divided by one less than the number of values.
MeanOverOneLess(values) == Frac(SumRange(values, 1, Len(values)), Len(values) - 1)

\* mean = sum(values) / len(values)
Mean(values) == Frac(SumRange(values, 1, Len(values)), Len(values))

\* sum((x - mean) ** 2 for x in values)
RECURSIVE SumSquaredDeviations(_, _, _)
SumSquaredDeviations(values, mean, hi) ==
    IF hi = 0 THEN RZero
    ELSE LET dev == RSub(FromInt(values[hi]), mean)
         IN  RAdd(SumSquaredDeviations(values, mean, hi - 1), RMul(dev, dev))

\* variance = sum((x - mean) ** 2 for x in values) / len(values)
Variance(values) ==
    RDiv(SumSquaredDeviations(values, Mean(values), Len(values)), FromInt(Len(values)))

\* std_dev = variance ** 0.5, kept as the non-negative root of its radicand
StdDev(values) == [radicand |-> Variance(values)]

Sign(x) == IF x > 0 THEN 1 ELSE IF x < 0 THEN -1 ELSE 0

\* z_score = (x - mean) / std_dev if std_dev > 0 else 0, kept as its sign
\* and its square (x - mean) ** 2 / variance
ZScore(x, mean, std_dev) ==
    LET dev == RSub(FromInt(x), mean)
    IN  IF RGt(std_dev.radicand, RZero)
        THEN [sign |-> Sign(dev.n), square |-> RDiv(RMul(dev, dev), std_dev.radicand)]
        ELSE [sign |-> 0, square |-> RZero]

\* Mutant of IsOutlier: the threshold is inclusive.
IsOutlierInclusive(z_score, rounded_beyond) == RLe(FromInt(4), z_score.square)

\* Mutant of IsOutlier: abs() is left out, low outliers are missed.
IsOutlierOneSided(z_score, rounded_beyond) ==
    /\ z_score.sign > 0
    /\ RGt(z_score.square, FromInt(4)) \/ (z_score.square = FromInt(4) /\ rounded_beyond)

\* abs(z_score) > 2.0 on the float: a z-score of exactly +-2 passes the
\* test only when rounding carried the float beyond +-2.0.
IsOutlier(z_score, rounded_beyond) ==
    RGt(z_score.square, FromInt(4)) \/ (z_score.square = FromInt(4) /\ rounded_beyond)

\* The outlier record of a day.
OutlierRecord(day, mean, std_dev) ==
    LET dev == RSub(FromInt(day.sum_count), mean)
    IN  [date |-> day.date,
         value |-> day.sum_count,
         z_score |-> ZScore(day.sum_count, mean, std_dev),
         deviation_from_mean |-> dev,
         deviation_pct |-> IF RGt(mean, RZero)
                           THEN RMul(RDiv(dev, mean), FromInt(100)) ELSE RZero]

\* for i, day in enumerate(sorted_days): if abs(z_score) > 2.0: outliers.append(...)
\* z_beyond: the values whose float z-score rounding carried beyond +-2.0.
RECURSIVE Outliers(_, _, _, _, _)
Outliers(sorted_days, mean, std_dev, hi, z_beyond) ==
    IF hi = 0 THEN <<>>
    ELSE LET rest == Outliers(sorted_days, mean, std_dev, hi - 1, z_beyond)
             day  == sorted_days[hi]
         IN  IF IsOutlier(ZScore(day.sum_count, mean, std_dev), day.sum_count \in z_beyond)
             THEN Append(rest, OutlierRecord(day, mean, std_dev))
             ELSE rest

\* Mutant of SortByPctDescending: equal keys come out in reverse input order.
RECURSIVE SortByPctDescendingTiesReversed(_)
SortByPctDescendingTiesReversed(changes) ==
    IF changes = <<>> THEN <<>>
    ELSE LET init == SortByPctDescendingTiesReversed(SubSeq(changes, 1, Len(changes) - 1))
             x    == changes[Len(changes)]
             pos  == Cardinality({i \in 1..Len(init) :
                        RLt(x.percentage_change, init[i].percentage_change)})
         IN  SubSeq(init, 1, pos) \o <<x>> \o SubSeq(init, pos + 1, Len(init))

\* sorted(changes, key=lambda x: x["percentage_change"], reverse=True): stable
RECURSIVE SortByPctDescending(_)
SortByPctDescending(changes) ==
    IF changes = <<>> THEN <<>>
    ELSE LET init == SortByPctDescending(SubSeq(changes, 1, Len(changes) - 1))
             x    == changes[Len(changes)]
             pos  == Cardinality({i \in 1..Len(init) :
                        RLe(x.percentage_change, init[i].percentage_change)})
         IN  SubSeq(init, 1, pos) \o <<x>> \o SubSeq(init, pos + 1, Len(init))

\* sorted(changes, key=lambda x: x["percentage_change"]): stable
RECURSIVE SortByPctAscending(_)
SortByPctAscending(changes) ==
    IF changes = <<>> THEN <<>>
    ELSE LET init == SortByPctAscending(SubSeq(changes, 1, Len(changes) - 1))
             x    == changes[Len(changes)]
             pos  == Cardinality({i \in 1..Len(init) :
                        RLe(init[i].percentage_change, x.percentage_change)})
         IN  SubSeq(init, 1, pos) \o <<x>> \o SubSeq(init, pos + 1, Len(init))

\* Program constants of the trend analysis.
TopChanges      == 5
TrendWindow     == 7
ShiftThreshold  == 15

\* Mutant of TrendBreakAt: abs() is left out, downward shifts are missed.
TrendBreakAtIncreaseOnly(sorted_days, values, i, rounded_beyond) ==
    LET prev_avg  == Frac(SumRange(values, i - TrendWindow, i - 1), TrendWindow)
        curr_avg  == Frac(SumRange(values, i - TrendWindow + 1, i), TrendWindow)
        shift_pct == RMul(RDiv(RSub(curr_avg, prev_avg), prev_avg), FromInt(100))
    IN  IF /\ RGt(prev_avg, RZero)
           /\ \/ RGt(shift_pct, FromInt(ShiftThreshold))
              \/ shift_pct = FromInt(ShiftThreshold) /\ rounded_beyond
        THEN <<[date |-> sorted_days[i].date,
                previous_7day_avg |-> prev_avg,
                current_7day_avg |-> curr_avg,
                shift_percentage |-> shift_pct,
                shift_type |-> "increase"]>>
        ELSE <<>>

\* The trend-break test at 1-based position i (i > TrendWindow):
\* prev_avg = sum(values[i-7:i]) / 7, curr_avg = sum(values[i-6:i+1]) / 7.
\* abs(shift_pct) > 15.0 is a test on the float: a shift of exactly +-15%
\* passes it only when rounding carried the float beyond +-15.0.
TrendBreakAt(sorted_days, values, i, rounded_beyond) ==
    LET prev_avg  == Frac(SumRange(values, i - TrendWindow, i - 1), TrendWindow)
        curr_avg  == Frac(SumRange(values, i - TrendWindow + 1, i), TrendWindow)
        shift_pct == RMul(RDiv(RSub(curr_avg, prev_avg), prev_avg), FromInt(100))
    IN  IF /\ RGt(prev_avg, RZero)
           /\ \/ RGt(RAbs(shift_pct), FromInt(ShiftThreshold))
              \/ RAbs(shift_pct) = FromInt(ShiftThreshold) /\ rounded_beyond
        THEN <<[date |-> sorted_days[i].date,
                previous_7day_avg |-> prev_avg,
                current_7day_avg |-> curr_avg,
                shift_percentage |-> shift_pct,
                shift_type |-> IF RGt(shift_pct, RZero) THEN "increase" ELSE "decrease"]>>
        ELSE <<>>

\* for i in range(7, len(sorted_days)): ...
\* shift_beyond: the positions whose float shift rounding carried beyond +-15.0.
RECURSIVE TrendBreaks(_, _, _, _)
TrendBreaks(sorted_days, values, hi, shift_beyond) ==
    IF hi <= TrendWindow THEN <<>>
    ELSE TrendBreaks(sorted_days, values, hi - 1, shift_beyond)
             \o TrendBreakAt(sorted_days, values, hi, hi \in shift_beyond)

\* sum(x[i] * values[i] for i in range(n)) with x = 0..n-1
RECURSIVE SumXY(_, _)
SumXY(values, hi) ==
    IF hi = 0 THEN 0 ELSE SumXY(values, hi - 1) + (hi - 1) * values[hi]

\* sum(range(n)) and sum(xi * xi for xi in range(n))
RECURSIVE SumX(_)
SumX(n) == IF n = 0 THEN 0 ELSE SumX(n - 1) + (n - 1)
RECURSIVE SumX2(_)
SumX2(n) == IF n = 0 THEN 0 ELSE SumX2(n - 1) + (n - 1) * (n - 1)

\* Mutant of Slope: the product of the sums is not subtracted.
SlopeUncentred(values) ==
    LET n      == Len(values)
        denom  == n * SumX2(n) - SumX(n) * SumX(n)
    IN  IF denom # 0 THEN Frac(n * SumXY(values, n), denom) ELSE RZero

\* The closed-form least-squares slope of values against 0..n-1.
Slope(values) ==
    LET n      == Len(values)
        sum_y  == SumRange(values, 1, n)
        denom  == n * SumX2(n) - SumX(n) * SumX(n)
    IN  IF denom # 0 THEN Frac(n * SumXY(values, n) - SumX(n) * sum_y, denom) ELSE RZero

\* Mutant of TrendDirection: a zero slope counts as increasing.
TrendDirectionNonStrict(slope) ==
    IF RLe(RZero, slope) THEN "increasing" ELSE "decreasing"

\* trend_direction = "increasing" if slope > 0 else "decreasing" if slope < 0 else "stable"
TrendDirection(slope) ==
    IF RGt(slope, RZero) THEN "increasing"
    ELSE IF RLt(slope, RZero) THEN "decreasing" ELSE "stable"

\* The "trend" entry of the result (lines 173-189 and 210-216).
LinearTrend(values) ==
    LET n    == Len(values)
        mean == Mean(values)
    IN  IF n > 1
        THEN LET slope == Slope(values)
             IN  [direction |-> TrendDirection(slope),
                  slope |-> slope,
                  strength_per_day_pct |->
                      IF RGt(mean, RZero)
                      THEN RMul(RDiv(RAbs(slope), mean), FromInt(100)) ELSE RZero,
                  estimated_change_over_period |-> RMul(slope, FromInt(n - 1)),
                  estimated_change_over_period_pct |->
                      IF RGt(mean, RZero)
                      THEN RMul(RDiv(RMul(slope, FromInt(n - 1)), mean), FromInt(100))
                      ELSE RZero]
        ELSE [direction |-> "insufficient_data",
              slope |-> RZero,
              strength_per_day_pct |-> RZero,
              estimated_change_over_period |-> RZero,
              estimated_change_over_period_pct |-> RZero]

\* Mutant of Median: the lower of the two middle elements.
MedianLower(values) ==
    IF values # <<>> THEN SortAscending(values)[((Len(values) - 1) \div 2) + 1] ELSE 0

\* Mutant of Median: the two middle elements of an even-length sequence
\* are averaged (rounded down).
MedianAveraged(values) ==
    IF values # <<>>
    THEN LET sorted == SortAscending(values)
             n      == Len(values)
         IN  IF n % 2 = 0 THEN (sorted[n \div 2] + sorted[(n \div 2) + 1]) \div 2
             ELSE sorted[(n \div 2) + 1]
    ELSE 0

\* "median": sorted(values)[len(values) // 2] if values else 0
Median(values) ==
    IF values # <<>> THEN SortAscending(values)[(Len(values) \div 2) + 1] ELSE 0

\* The "statistics" entry of the result.
Statistics(values) ==
    LET sorted == SortAscending(values)
    IN  [mean |-> Mean(values),
         median |-> Median(values),
         std_deviation |-> StdDev(values),
         min |-> sorted[1],
         max |-> sorted[Len(sorted)],
         range |-> sorted[Len(sorted)] - sorted[1]]

\* enhanced_daily_data: each sorted day with its two moving averages
EnhancedDailyData(sorted_days, values) ==
    [i \in 1..Len(sorted_days) |->
        [date |-> sorted_days[i].date,
         sum_count |-> sorted_days[i].sum_count,
         moving_avg_7day |-> MovingAverage(values, i, 7),
         moving_avg_14day |-> MovingAverage(values, i, 14)]]

ErrorMarker == [error |-> "Need at least 2 days of data for trend analysis"]

\* The dict built for two or more days (lines 89-223).
TrendReport(days, rounding) ==
    LET sorted_days == SortByDate(days)
        values      == ValuesOf(sorted_days)
        changes     == DayOverDayChanges(sorted_days)
    IN  [statistics |-> Statistics(values),
         trend |-> LinearTrend(values),
         day_over_day_changes |-> changes,
         enhanced_daily_data |-> EnhancedDailyData(sorted_days, values),
         outliers |-> Outliers(sorted_days, Mean(values), StdDev(values), Len(sorted_days),
                               rounding.z_beyond),
         largest_increases |-> Take(SortByPctDescending(changes), TopChanges),
         largest_decreases |-> Take(SortByPctAscending(changes), TopChanges),
         trend_breaks |-> TrendBreaks(sorted_days, values, Len(sorted_days),
                                      rounding.shift_beyond)]

\* if len(daily_sums) < 2: return {"error": ...}
MinDays == 2

\* Mutant of CalculateTrendAnalysis: the guard lets a single day through.
CalculateTrendAnalysisOffByOne(days, rounding) ==
    IF Len(days) < 1 THEN ErrorMarker ELSE TrendReport(days, rounding)

\* The whole function: the returned dict.
CalculateTrendAnalysis(days, rounding) ==
    IF Len(days) < MinDays THEN ErrorMarker ELSE TrendReport(days, rounding)

-----------------------------------------------------------------------------
(* The callers.                                                            *)

NoDrivers == [rate_effect |-> RZero, mix_effect |-> RZero,
              volume_effect |-> RZero, delta_rate |-> RZero]
NoRca     == [summary |-> <<>>, cohortBreakdown |-> <<>>, topContributors |-> <<>>,
              drivers |-> NoDrivers, passed_keys |-> {}]
NoArgs    == [total_clicks_cur |-> 0, total_visits_cur |-> 0,
              total_clicks_prev |-> 0, total_visits_prev |-> 0,
              per_key_clicks_cur |-> <<>>, per_key_visits_cur |-> <<>>,
              per_key_clicks_prev |-> <<>>, per_key_visits_prev |-> <<>>]
NoResult  == [pending |-> TRUE]

\* A caller that keeps no objects.
NoHeap == <<>>

\* No float comparison of the call hangs on a rounding.
NoRounding == [z_beyond |-> {}, shift_beyond |-> {}, rank |-> <<>>]

\* The values of a series whose z-score is exactly +-2 while the float
\* z-score was rounded on the way: the mean, the variance or the standard
\* deviation is no float (lines 124-131).  Rounding may or may not have
\* carried such a z-score beyond +-2.0.
RoundedZValues(days) ==
    IF Len(days) < MinDays THEN {}
    ELSE LET values  == ValuesOf(days)
             mean    == Mean(values)
             std_dev == StdDev(values)
             exact   == /\ Representable(mean)
                        /\ Representable(std_dev.radicand)
                        /\ HasExactRoot(std_dev.radicand)
         IN  {values[i] : i \in {j \in 1..Len(values) :
                 /\ ZScore(values[j], mean, std_dev).square = FromInt(4)
                 /\ ~exact}}

\* The positions of a series at which the shift of the 7-day average is
\* exactly +-15%: 0.15 is no float, so the float shift was rounded (lines
\* 158-163) and may or may not lie beyond +-15.0.
RoundedShiftPositions(days) ==
    LET values == ValuesOf(SortByDate(days))
    IN  {i \in (TrendWindow + 1)..Len(values) :
            LET prev == SumRange(values, i - TrendWindow, i - 1)
                curr == SumRange(values, i - TrendWindow + 1, i)
            IN  prev > 0 /\ Abs(curr - prev) * 100 = ShiftThreshold * prev}

\* The roundings a call of calculate_trend_analysis may meet.
TrendRoundings(days) ==
    {[z_beyond |-> z, shift_beyond |-> b, rank |-> <<>>] :
        z \in SUBSET RoundedZValues(days), b \in SUBSET RoundedShiftPositions(days)}

\* The float contribution of a cohort row is its exact value: it is zero
\* (a zero share or two equal rates), or the share and both click rates are
\* floats (agent_runner.py lines 303-304).
ContributionIsExact(a, k) ==
    LET row   == CohortRow(a, k)
        total == IF a.total_visits_cur > 0 THEN FromInt(a.total_visits_cur) ELSE FromInt(1)
    IN  \/ RIsZero(row.contribution_to_delta)
        \/ /\ Representable(RDiv(row.visits, total))
           /\ Representable(RDiv(row.rate, FromInt(100)))
           /\ Representable(RDiv(row.rate_prev, FromInt(100)))

\* Two cohort rows are computed from the same share and the same two rates
\* (in either order): their float contributions have one absolute value.
SameFloatContribution(a, k1, k2) ==
    LET r1 == CohortRow(a, k1)
        r2 == CohortRow(a, k2)
    IN  /\ r1.visits = r2.visits
        /\ {r1.rate, r1.rate_prev} = {r2.rate, r2.rate_prev}

\* Cohort k ties in exact absolute contribution with a row computed from
\* other values, and its float was rounded: the floats need not tie.
RankIsOpen(a, k) ==
    /\ ~ContributionIsExact(a, k)
    /\ \E k2 \in RcaKeys(a) \ {k} :
          /\ RAbs(CohortRow(a, k2).contribution_to_delta)
                 = RAbs(CohortRow(a, k).contribution_to_delta)
          /\ ~SameFloatContribution(a, k, k2)

\* The ranks the rounding may give the float contributions of the rows
\* among the rows of the same exact absolute value; 0 is the exact value.
ContributionRanks(a) ==
    LET ks   == RcaKeys(a)
        open == {k \in ks : RankIsOpen(a, k)}
        top  == Cardinality(ks) - 1
        open_ranks == {q \in [open -> (-top)..top] :
                          \A k1, k2 \in open :
                              SameFloatContribution(a, k1, k2) => q[k1] = q[k2]}
    IN  {[k \in ks |-> IF k \in open THEN q[k] ELSE 0] : q \in open_ranks}

\* The roundings a call of run_rca_interaction_rate may meet.
RcaRoundings(a) ==
    {[z_beyond |-> {}, shift_beyond |-> {}, rank |-> r] : r \in ContributionRanks(a)}

\* The calls: every pairing of period totals with per-cohort mappings;
\* cohort "b" has no previous-period clicks entry.
ShiftArgs ==
    {[total_clicks_cur |-> cur[1], total_visits_cur |-> cur[2],
      total_clicks_prev |-> prev[1], total_visits_prev |-> prev[2],
      per_key_clicks_cur |-> kcc, per_key_visits_cur |-> kvc,
      per_key_clicks_prev |-> kcp, per_key_visits_prev |-> kvp] :
        cur \in PeriodTotals, prev \in PeriodTotals,
        kcc \in ClickMappings, kvc \in VisitMappings,
        kcp \in {m \in ClickMappings : "b" \notin DOMAIN m}, kvp \in VisitMappings}

InitShift ==
    /\ pc = "start"
    /\ args \in ShiftArgs
    /\ keys = {}
    /\ drivers = NoDrivers
    /\ rca = NoRca
    /\ calls = <<>>
    /\ daily_sums = <<>>
    /\ result = NoResult
    /\ fp \in RcaRoundings(args)
    /\ heap = NoHeap

\* The caller's arguments after compute_shift_share_drivers has returned:
\* the mappings are read with .get(k, 0.0) only, which inserts nothing.
ArgsAfterCall(a) == a

\* A direct call compute_shift_share_drivers(**args).
CallComputeShiftShareDrivers ==
    /\ pc = "start"
    /\ pc' = "compute_shift_share_drivers"
    /\ keys' = ShiftShareKeys(args)
    /\ drivers' = ComputeShiftShareDrivers(args)
    /\ args' = ArgsAfterCall(args)
    /\ UNCHANGED <<fp, heap, rca, daily_sums, result, calls>>

\* A call run_rca_interaction_rate(...) whose queries returned args.
CallRunRcaInteractionRate ==
    /\ pc = "start"
    /\ \E order \in IterationOrders(RcaKeys(args)), top_x \in TopXs :
          /\ rca' = RunRcaInteractionRate(args, order, top_x, fp.rank)
          /\ keys' = rca'.passed_keys
          /\ drivers' = rca'.drivers
    /\ pc' = "run_rca_interaction_rate"
    /\ UNCHANGED <<fp, heap, args, daily_sums, result, calls>>

NextShift == CallComputeShiftShareDrivers \/ CallRunRcaInteractionRate

SpecShift == InitShift /\ [][NextShift]_vars

\* Calls of run_rca_interaction_rate with a given top_x: any of three cohorts
\* seen in both periods with the same number of visits, the current-period
\* daily visits summing to 0 or to 100; and two cohorts of 1 or 3 visits of
\* which every previous visit clicked and all but one current visit did
\* (the cohort of 1 visit and the cohort of 3 visits then share the exact
\* contribution -25).
RcaCohorts    == {"A", "B", "C"}
RcaClicksCur  == {0, 2, 5, 8}
RcaClicksPrev == {0, 8}
RcaVisitSums  == {0, 100}
RcaTopXs      == {-1, 0, 1, MaxTopX, MaxTopX + 2}
TiedCohorts   == {"A", "B"}
TiedVisits    == {1, 3}

RcaArgs ==
    UNION { { [total_clicks_cur |-> 7, total_visits_cur |-> total,
               total_clicks_prev |-> 9, total_visits_prev |-> 100,
               per_key_clicks_cur |-> kcc, per_key_visits_cur |-> [k \in present |-> 10],
               per_key_clicks_prev |-> kcp, per_key_visits_prev |-> [k \in present |-> 10],
               top_x |-> top_x] :
                 kcc \in [present -> RcaClicksCur], kcp \in [present -> RcaClicksPrev],
                 total \in RcaVisitSums, top_x \in RcaTopXs } :
            present \in SUBSET RcaCohorts }
    \cup { [total_clicks_cur |-> 2, total_visits_cur |-> 4,
            total_clicks_prev |-> 4, total_visits_prev |-> 4,
            per_key_clicks_cur |-> [k \in TiedCohorts |-> kv[k] - 1], per_key_visits_cur |-> kv,
            per_key_clicks_prev |-> kv, per_key_visits_prev |-> kv,
            top_x |-> top_x] :
              kv \in [TiedCohorts -> TiedVisits], top_x \in RcaTopXs }

InitRca ==
    /\ pc = "start"
    /\ args \in RcaArgs
    /\ keys = {}
    /\ drivers = NoDrivers
    /\ rca = NoRca
    /\ calls = <<>>
    /\ daily_sums = <<>>
    /\ result = NoResult
    /\ fp \in RcaRoundings(args)
    /\ heap = NoHeap

\* A call run_rca_interaction_rate(..., top_x=args.top_x) whose queries
\* returned args.
CallRunRcaInteractionRateTopX ==
    /\ pc = "start"
    /\ \E order \in IterationOrders(RcaKeys(args)) :
          /\ rca' = RunRcaInteractionRate(args, order, args.top_x, fp.rank)
          /\ keys' = rca'.passed_keys
          /\ drivers' = rca'.drivers
    /\ pc' = "run_rca_interaction_rate"
    /\ UNCHANGED <<fp, heap, args, daily_sums, result, calls>>

NextRca == CallRunRcaInteractionRateTopX

SpecRca == InitRca /\ [][NextRca]_vars

\* The observation lists handed to calculate_trend_analysis: up to MaxLen
\* days with counts of the wide range, up to MaxShortLen days with counts
\* of the narrow range, or MaxShortLen + 1 days over the two edge levels
\* (one day at 2 and four at 5 put the low day two standard deviations
\* below the mean), in one of the date orders below.
MaxLen      == 6
MaxShortLen == 4

WideRange   == {0, 10, 100}
NarrowRange == {1, 2, 3, 4}
EdgeLevels  == {2, 5}

\* Date sequences of length n: ascending, rotated by one (unsorted, distinct
\* dates), and descending with every date used twice.
DateOrders(n) ==
    { [i \in 1..n |-> i],
      [i \in 1..n |-> (i % n) + 1],
      [i \in 1..n |-> ((n - i) \div 2) + 1] }

CountSequences ==
    UNION {[1..n -> WideRange] : n \in 0..MaxLen}
        \cup UNION {[1..n -> NarrowRange] : n \in 0..MaxShortLen}
        \cup [1..(MaxShortLen + 1) -> EdgeLevels]

TrendInputs ==
    UNION { { [i \in 1..Len(counts) |-> [date |-> dates[i], sum_count |-> counts[i]]] :
                dates \in DateOrders(Len(counts)) } :
            counts \in CountSequences }

InitTrend ==
    /\ pc = "start"
    /\ daily_sums \in TrendInputs
    /\ result = NoResult
    /\ args = NoArgs
    /\ keys = {}
    /\ drivers = NoDrivers
    /\ rca = NoRca
    /\ calls = <<>>
    /\ fp \in TrendRoundings(daily_sums)
    /\ heap = NoHeap

\* The caller's list after calculate_trend_analysis has returned: sorted()
\* builds a new list and the records are only read.
DailySumsAfterCall(days) == days

\* A call calculate_trend_analysis(daily_sums).
CallCalculateTrendAnalysis ==
    /\ pc = "start"
    /\ pc' = "calculate_trend_analysis"
    /\ result' = CalculateTrendAnalysis(daily_sums, fp)
    /\ daily_sums' = DailySumsAfterCall(daily_sums)
    /\ UNCHANGED <<fp, heap, args, keys, drivers, rca, calls>>

NextTrend == CallCalculateTrendAnalysis

SpecTrend == InitTrend /\ [][NextTrend]_vars

\* Longer observation lists, for the 7-day and 14-day windows: a series of
\* MinLongLen or MaxLongLen days that holds one level before a change day
\* and another from it on, with one spike day; and every series of
\* MinLongLen days over the two mixed levels; and the dip series of
\* MinLongLen days, level 3 with one day at 2 in the first week and a last
\* day that moves the 7-day average by 10% or by 15%.  Dates ascending or
\* rotated by one.
MaxLongLen == 15
MinLongLen == TrendWindow + 1

StepLevels  == {0, 2, 3}
SpikeLevels == {1, 10}
MixedLevels == {1, 2}
MixedLens   == {3, MinLongLen - 1, MinLongLen}
DipLasts    == {0, 5, 6}

DipSeries(low_day, last) ==
    [i \in 1..MinLongLen |-> IF i = MinLongLen THEN last
                             ELSE IF i = low_day THEN 2 ELSE 3]

StepSeries(n, before, after, change_day, spike_day, spike) ==
    [i \in 1..n |-> IF i = spike_day THEN spike
                    ELSE IF i < change_day THEN before ELSE after]

LongCountSequences ==
    UNION { { StepSeries(n, before, after, change_day, spike_day, spike) :
                before \in StepLevels, after \in StepLevels,
                change_day \in 2..n, spike_day \in 1..n, spike \in SpikeLevels } :
            n \in {MinLongLen, MaxLongLen} }
        \cup UNION { [1..n -> MixedLevels] : n \in MixedLens }
        \cup { DipSeries(low_day, last) : low_day \in 1..TrendWindow, last \in DipLasts }

LongDateOrders(n) ==
    { [i \in 1..n |-> i], [i \in 1..n |-> (i % n) + 1] }

LongInputs ==
    UNION { { [i \in 1..Len(counts) |-> [date |-> dates[i], sum_count |-> counts[i]]] :
                dates \in LongDateOrders(Len(counts)) } :
            counts \in LongCountSequences }

InitLong ==
    /\ pc = "start"
    /\ daily_sums \in LongInputs
    /\ result = NoResult
    /\ args = NoArgs
    /\ keys = {}
    /\ drivers = NoDrivers
    /\ rca = NoRca
    /\ calls = <<>>
    /\ fp \in TrendRoundings(daily_sums)
    /\ heap = NoHeap

NextLong == CallCalculateTrendAnalysis

SpecLong == InitLong /\ [][NextLong]_vars

\* Observation lists of up to MaxPermLen days with pairwise distinct dates,
\* handed over in every order.
MaxPermLen == 4

PermutedInputs ==
    UNION { { [i \in 1..n |-> [date |-> dates[i], sum_count |-> counts[dates[i]]]] :
                dates \in IterationOrders(1..n), counts \in [1..n -> WideRange] } :
            n \in 0..MaxPermLen }

InitPerm ==
    /\ pc = "start"
    /\ daily_sums \in PermutedInputs
    /\ result = NoResult
    /\ args = NoArgs
    /\ keys = {}
    /\ drivers = NoDrivers
    /\ rca = NoRca
    /\ calls = <<>>
    /\ fp \in TrendRoundings(daily_sums)
    /\ heap = NoHeap

NextPerm == CallCalculateTrendAnalysis

SpecPerm == InitPerm /\ [][NextPerm]_vars

\* Repeated calls: either function is called, and then called again with
\* the arguments the first call left behind.  The caller's list, day dicts
\* and mappings are objects on the heap, and the calls act on them by
\* reference as the statements of the functions do.
FrameDays == {days \in PermutedInputs : Len(days) <= MinDays + 1}
FrameArgs == {a \in ShiftArgs :
                /\ a.total_clicks_cur = 1 /\ a.total_visits_cur = MaxTotal
                /\ a.total_clicks_prev = 1 /\ a.total_visits_prev = 0}

\* The objects of the caller.  A list object is [items |-> the references it
\* holds, in order]; a dict is the record of its entries.  The caller holds
\* the four cohort mappings, the observation list, and the day dicts the
\* list refers to.
ArgumentRefs ==
    [per_key_clicks_cur |-> 1, per_key_visits_cur |-> 2,
     per_key_clicks_prev |-> 3, per_key_visits_prev |-> 4, daily_sums |-> 5]

HeapOf(a, days) ==
    <<a.per_key_clicks_cur, a.per_key_visits_cur, a.per_key_clicks_prev, a.per_key_visits_prev,
      [items |-> [i \in 1..Len(days) |-> ArgumentRefs.daily_sums + i]]>> \o days

\* The dicts a list object refers to, in its order.
DaysAt(h, list_ref) == [i \in 1..Len(h[list_ref].items) |-> h[h[list_ref].items[i]]]

\* The arguments of compute_shift_share_drivers as the mappings are now.
ArgsAt(h, a) ==
    [a EXCEPT !.per_key_clicks_cur  = h[ArgumentRefs.per_key_clicks_cur],
              !.per_key_visits_cur  = h[ArgumentRefs.per_key_visits_cur],
              !.per_key_clicks_prev = h[ArgumentRefs.per_key_clicks_prev],
              !.per_key_visits_prev = h[ArgumentRefs.per_key_visits_prev]]

\* The references of a list in ascending order of x["date"], stably.
RECURSIVE SortRefsByDate(_, _)
SortRefsByDate(h, refs) ==
    IF refs = <<>> THEN <<>>
    ELSE LET init == SortRefsByDate(h, SubSeq(refs, 1, Len(refs) - 1))
             x    == refs[Len(refs)]
             pos  == Cardinality({i \in 1..Len(init) : h[init[i]].date <= h[x].date})
         IN  SubSeq(init, 1, pos) \o <<x>> \o SubSeq(init, pos + 1, Len(init))

\* Mutant of Sorted: daily_sums.sort(key=...), which reorders the list it
\* is called on and makes no new one.
SortedInPlace(h, list_ref) ==
    [heap |-> [h EXCEPT ![list_ref] = [items |-> SortRefsByDate(h, h[list_ref].items)]],
     ref  |-> list_ref]

\* sorted(daily_sums, key=lambda x: x["date"]): a new list object holding
\* the same references in date order; the list it was given is only read.
Sorted(h, list_ref) ==
    [heap |-> Append(h, [items |-> SortRefsByDate(h, h[list_ref].items)]),
     ref  |-> Len(h) + 1]

\* calculate_trend_analysis(daily_sums) on the caller's objects: the early
\* return, then sorted(); every later statement reads sorted_days[i]["date"]
\* and sorted_days[i]["sum_count"] and builds new dicts of numbers and
\* strings (TrendReport, whose own sort finds the list in date order).
TrendAnalysisOnHeap(h, list_ref, rounding) ==
    IF Len(h[list_ref].items) < MinDays THEN [heap |-> h, returned |-> ErrorMarker]
    ELSE LET sorted_days == Sorted(h, list_ref)
         IN  [heap     |-> sorted_days.heap,
              returned |-> TrendReport(DaysAt(sorted_days.heap, sorted_days.ref), rounding)]

\* mapping.get(k, 0.0): the entry or the default; the mapping is only read.
DictGet(h, dict_ref, k) ==
    [heap |-> h, value |-> IF k \in DOMAIN h[dict_ref] THEN h[dict_ref][k] ELSE 0]

\* The four reads of one pass of "for k in keys" (lines 143-146).
ReadCohort(h, k) ==
    LET v_cur  == DictGet(h, ArgumentRefs.per_key_visits_cur, k)
        v_prev == DictGet(v_cur.heap, ArgumentRefs.per_key_visits_prev, k)
        c_cur  == DictGet(v_prev.heap, ArgumentRefs.per_key_clicks_cur, k)
        c_prev == DictGet(c_cur.heap, ArgumentRefs.per_key_clicks_prev, k)
    IN  c_prev.heap

RECURSIVE ReadCohorts(_, _)
ReadCohorts(h, ks) ==
    IF ks = {} THEN h
    ELSE LET k == CHOOSE x \in ks : TRUE
         IN  ReadCohort(ReadCohorts(h, ks \ {k}), k)

\* compute_shift_share_drivers(**args) on the caller's objects: the keys are
\* read off the two visits mappings, the loop reads the four mappings, and
\* the dict returned holds floats only.
ShiftShareOnHeap(h, a) ==
    [heap     |-> ReadCohorts(h, ShiftShareKeys(ArgsAt(h, a))),
     returned |-> ComputeShiftShareDrivers(ArgsAt(h, a))]

InitFrame ==
    /\ pc = "start"
    /\ \/ daily_sums \in FrameDays /\ args = NoArgs
       \/ daily_sums = <<>> /\ args \in FrameArgs
    /\ keys = {}
    /\ drivers = NoDrivers
    /\ rca = NoRca
    /\ calls = <<>>
    /\ result = NoResult
    /\ fp \in TrendRoundings(daily_sums)
    /\ heap = HeapOf(args, daily_sums)

\* A call calculate_trend_analysis(daily_sums) with the caller's list;
\* daily_sums is the list as the caller finds it after the call.
FirstCalculateTrendAnalysis ==
    /\ pc = "start"
    /\ pc' = "calculate_trend_analysis"
    /\ LET call == TrendAnalysisOnHeap(heap, ArgumentRefs.daily_sums, fp)
       IN  /\ heap' = call.heap
           /\ result' = call.returned
    /\ daily_sums' = DaysAt(heap', ArgumentRefs.daily_sums)
    /\ UNCHANGED <<fp, args, keys, drivers, rca, calls>>

\* A second call calculate_trend_analysis(daily_sums) with the same list.
RepeatCalculateTrendAnalysis ==
    /\ pc = "calculate_trend_analysis"
    /\ pc' = "calculate_trend_analysis_again"
    /\ LET call == TrendAnalysisOnHeap(heap, ArgumentRefs.daily_sums, fp)
       IN  /\ heap' = call.heap
           /\ result' = call.returned
    /\ daily_sums' = DaysAt(heap', ArgumentRefs.daily_sums)
    /\ UNCHANGED <<fp, args, keys, drivers, rca, calls>>

\* A call compute_shift_share_drivers(**args) with the caller's mappings;
\* args holds the mappings as the caller finds them after the call.
FirstComputeShiftShareDrivers ==
    /\ pc = "start"
    /\ pc' = "compute_shift_share_drivers"
    /\ LET call == ShiftShareOnHeap(heap, args)
       IN  /\ heap' = call.heap
           /\ drivers' = call.returned
    /\ keys' = ShiftShareKeys(ArgsAt(heap, args))
    /\ args' = ArgsAt(heap', args)
    /\ UNCHANGED <<fp, rca, daily_sums, result, calls>>

\* A second call compute_shift_share_drivers(**args) with the same mappings.
RepeatComputeShiftShareDrivers ==
    /\ pc = "compute_shift_share_drivers"
    /\ pc' = "compute_shift_share_drivers_again"
    /\ LET call == ShiftShareOnHeap(heap, args)
       IN  /\ heap' = call.heap
           /\ drivers' = call.returned
    /\ keys' = ShiftShareKeys(ArgsAt(heap, args))
    /\ args' = ArgsAt(heap', args)
    /\ UNCHANGED <<fp, rca, daily_sums, result, calls>>

NextFrame ==
    \/ FirstCalculateTrendAnalysis
    \/ FirstComputeShiftShareDrivers
    \/ RepeatCalculateTrendAnalysis
    \/ RepeatComputeShiftShareDrivers

SpecFrame == InitFrame /\ [][NextFrame]_vars

-----------------------------------------------------------------------------
(* agent_runner.py: main.  A question is a sequence of text pieces; the    *)
(* pieces are chosen so that the phrases main looks for never straddle     *)
(* two of them.                                                            *)

Pieces == {"interaction rate", "Interaction Rate", "rca", "RCA", "why", " "}

\* str.lower() of one piece
LowerPiece(t) ==
    CASE t = "Interaction Rate" -> "interaction rate"
      [] t = "RCA" -> "rca"
      [] OTHER -> t

\* str.lower()
Lower(q) == [i \in 1..Len(q) |-> LowerPiece(q[i])]

\* str.strip(): leading and trailing whitespace removed
RECURSIVE Strip(_)
Strip(q) ==
    IF q = <<>> THEN q
    ELSE IF Head(q) = " " THEN Strip(Tail(q))
    ELSE IF q[Len(q)] = " " THEN Strip(SubSeq(q, 1, Len(q) - 1))
    ELSE q

\* phrase in question
Contains(q, phrase) == \E i \in 1..Len(q) : q[i] = phrase

\* The three outcomes of main: the calls made and what is printed.
InteractionRateAnswer ==
    [calls  |-> <<"run_interaction_rate_clicks_over_visits", "run_interaction_rate_analysis">>,
     output |-> [answer |-> <<"clicks_over_visits", "sessions_based">>]]
RcaAnswer ==
    [calls  |-> <<"run_rca_interaction_rate">>,
     output |-> [answer |-> <<"rca">>]]
NoAnswer(asked) ==
    [calls  |-> <<>>,
     output |-> [info |-> "No supported question detected yet.", question |-> asked]]

\* Mutant of Main: the rca test comes before the interaction-rate test.
MainRcaFirst(asked) ==
    LET question == Strip(Lower(asked))
    IN  IF Contains(question, "rca") /\ Contains(question, "interaction rate")
        THEN RcaAnswer
        ELSE IF Contains(question, "interaction rate") THEN InteractionRateAnswer
        ELSE NoAnswer(asked)

\* main() for --question asked (lines 388-415)
Main(asked) ==
    LET question == Strip(Lower(asked))
    IN  IF Contains(question, "interaction rate") THEN InteractionRateAnswer
        ELSE IF Contains(question, "rca") /\ Contains(question, "interaction rate")
        THEN RcaAnswer
        ELSE NoAnswer(asked)

MaxQuestionLen == 3

Questions == UNION {[1..n -> Pieces] : n \in 0..MaxQuestionLen}

InitMain ==
    /\ pc = "start"
    /\ args \in {[question |-> q] : q \in Questions}
    /\ keys = {}
    /\ drivers = NoDrivers
    /\ rca = NoRca
    /\ calls = <<>>
    /\ daily_sums = <<>>
    /\ result = NoResult
    /\ fp = NoRounding
    /\ heap = NoHeap

\* One run of main.
CallMain ==
    /\ pc = "start"
    /\ pc' = "main"
    /\ calls' = Main(args.question).calls
    /\ result' = Main(args.question).output
    /\ UNCHANGED <<fp, heap, args, keys, drivers, rca, daily_sums>>

NextMain == CallMain

SpecMain == InitMain /\ [][NextMain]_vars

-----------------------------------------------------------------------------
(* lotus_widget_daily_count.py: lotus_widget_daily_count.  The backend's   *)
(* answer to a strategy's query is [raised, buckets]: either building or   *)
(* running the query raised, or the by_day buckets came back.  A bucket    *)
(* is [key_as_string, key, doc_count, total]: key_as_string is "" when the *)
(* bucket has none (None and "" are both false), and the integer key, the  *)
(* start of the day in epoch milliseconds, is [s, ms] for 1000 * s + ms.   *)

\* What the caller sees when an exception leaves the function.
Failure == [raised |-> "Exception"]

Digits == <<"0", "1", "2", "3", "4", "5", "6", "7", "8", "9">>

\* "%02d" and "%04d" of a number of at most that many digits
TwoDigits(n)  == Digits[(n \div 10) + 1] \o Digits[(n % 10) + 1]
FourDigits(n) == TwoDigits(n \div 100) \o TwoDigits(n % 100)

\* strftime("%Y-%m-%d") of the day that lies `days` days after 1970-01-01
\* in the proleptic Gregorian calendar, for the years 1000 to 9999; years
\* are counted from 1 March of year 0 in eras of 400 years.
FormatDay(days) ==
    LET z   == days + 719468
        era == z \div 146097
        doe == z % 146097
        yoe == (doe - (doe \div 1460) + (doe \div 36524) - (doe \div 146096)) \div 365
        doy == doe - (365 * yoe + (yoe \div 4) - (yoe \div 100))
        mp  == (5 * doy + 2) \div 153
        d   == doy - ((153 * mp + 2) \div 5) + 1
        m   == IF mp < 10 THEN mp + 3 ELSE mp - 9
        y   == yoe + era * 400 + (IF m <= 2 THEN 1 ELSE 0)
    IN  FourDigits(y) \o "-" \o TwoDigits(m) \o "-" \o TwoDigits(d)

\* datetime.fromtimestamp(key / 1000).strftime("%Y-%m-%d"): the calendar day
\* of the instant in the local time zone, utc_offset seconds east of UTC.
LocalDate(key, utc_offset) == FormatDay((key.s + utc_offset) \div 86400)

\* date_key = b.get("key_as_string") or b.get("key"), an integer key turned
\* into the local date (lines 215-218)
DateKey(b, utc_offset) ==
    IF b.key_as_string # "" THEN b.key_as_string ELSE LocalDate(b.key, utc_offset)

\* extract_daily_series: one row per bucket, counting the summed
\* eventProperties.count for a counter event and the documents otherwise
ExtractDailySeries(resp, use_sum_count, utc_offset) ==
    [i \in 1..Len(resp.buckets) |->
        [date  |-> DateKey(resp.buckets[i], utc_offset),
         count |-> IF use_sum_count THEN resp.buckets[i].total
                   ELSE resp.buckets[i].doc_count]]

\* Mutant of HasPositiveDay: any non-empty series is accepted.
HasPositiveDayNonEmpty(series) == series # <<>>

\* series and any(row["count"] > 0 for row in series)
HasPositiveDay(series) ==
    series # <<>> /\ \E i \in 1..Len(series) : series[i].count > 0

\* if widget_field: (None and "" are both false)
Truthy(text) == text \notin {"None", ""}

\* The strategies list of a call (lines 251-261).
Strategies(widget_field) ==
    IF ~Truthy(widget_field)
    THEN <<"widget_field_filter", "store_id_filter", "unfiltered">>
    ELSE <<"widget_field_filter", "store_id_filter">>

\* Mutant of RunStrategies: a failure of the last strategy is suppressed too.
RECURSIVE RunStrategiesSuppressAll(_, _, _, _)
RunStrategiesSuppressAll(a, strategies, i, attempted) ==
    IF i > Len(strategies) THEN [calls |-> attempted, output |-> [returned |-> <<>>]]
    ELSE LET resp == a.responses[strategies[i]]
             log  == Append(attempted, strategies[i])
         IN  IF resp.raised
             THEN RunStrategiesSuppressAll(a, strategies, i + 1, log)
             ELSE LET series == ExtractDailySeries(resp, a.is_counter, a.utc_offset)
                  IN  IF HasPositiveDay(series)
                      THEN [calls |-> log, output |-> [returned |-> series]]
                      ELSE RunStrategiesSuppressAll(a, strategies, i + 1, log)

\* for i, build_dsl in enumerate(strategies): ... return [] (lines 263-277),
\* from the 1-based strategy i on
RECURSIVE RunStrategies(_, _, _, _)
RunStrategies(a, strategies, i, attempted) ==
    IF i > Len(strategies) THEN [calls |-> attempted, output |-> [returned |-> <<>>]]
    ELSE LET resp == a.responses[strategies[i]]
             log  == Append(attempted, strategies[i])
         IN  IF resp.raised
             THEN IF i < Len(strategies)
                  THEN RunStrategies(a, strategies, i + 1, log)
                  ELSE [calls |-> log, output |-> Failure]
             ELSE LET series == ExtractDailySeries(resp, a.is_counter, a.utc_offset)
                  IN  IF HasPositiveDay(series)
                      THEN [calls |-> log, output |-> [returned |-> series]]
                      ELSE RunStrategies(a, strategies, i + 1, log)

\* The whole function: the field discovery when no field was given, the
\* counter detection, then the strategies.
LotusWidgetDailyCount(a) ==
    RunStrategies(a, Strategies(a.widget_field), 1,
                  IF Truthy(a.widget_field) THEN <<"detect_counter_event">>
                  ELSE <<"discover_widget_name_field", "detect_counter_event">>)

\* The answers of the backend: a failure, no bucket, a day without
\* documents, a day with a document of count 0, and two days of which the
\* second has up to MaxDayCount counted visits.  The days are 2024-01-01
\* and 2024-01-02 (UTC), or the first two milliseconds of 1970; a bucket
\* list carries key_as_string on every bucket or on none.
MaxDayCount == 2

DayKeys ==
    { <<[s |-> 1704067200, ms |-> 0], [s |-> 1704153600, ms |-> 0]>>,
      <<[s |-> 0, ms |-> 1], [s |-> 0, ms |-> 2]>> }

\* The key_as_string of a bucket, the UTC day in the default date format.
KeyAsString(key) == FormatDay(key.s \div 86400) \o "T00:00:00.000Z"

Bucket(key, named, doc_count, total) ==
    [key_as_string |-> IF named THEN KeyAsString(key) ELSE "", key |-> key,
     doc_count |-> doc_count, total |-> total]

BucketLists ==
    { <<>> }
    \cup UNION { { <<Bucket(k[1], named, 0, 0)>>,
                   <<Bucket(k[1], named, 1, 0)>>,
                   <<Bucket(k[1], named, 0, 0), Bucket(k[2], named, 1, MaxDayCount)>> } :
                 k \in DayKeys, named \in BOOLEAN }

Responses ==
    { [raised |-> TRUE, buckets |-> <<>>] }
    \cup { [raised |-> FALSE, buckets |-> b] : b \in BucketLists }

WidgetFields == {"None", "", "eventProperties.widgetName"}

\* The local time zone of the process: UTC, or five hours west of it.
UtcOffsets == {0, -18000}

\* The calls: the three answers are of one kind of day and of naming, the
\* failure and the empty answer being of every kind.
SameKind(r1, r2) ==
    \/ r1.buckets = <<>>
    \/ r2.buckets = <<>>
    \/ /\ r1.buckets[1].key = r2.buckets[1].key
       /\ r1.buckets[1].key_as_string = r2.buckets[1].key_as_string

LotusArgs ==
    {[widget_field |-> f, is_counter |-> c, utc_offset |-> tz,
      responses |-> [widget_field_filter |-> r[1], store_id_filter |-> r[2], unfiltered |-> r[3]]] :
        f \in WidgetFields, c \in BOOLEAN, tz \in UtcOffsets,
        r \in {q \in Responses \X Responses \X Responses :
                 SameKind(q[1], q[2]) /\ SameKind(q[1], q[3]) /\ SameKind(q[2], q[3])}}

InitLotus ==
    /\ pc = "start"
    /\ args \in LotusArgs
    /\ keys = {}
    /\ drivers = NoDrivers
    /\ rca = NoRca
    /\ calls = <<>>
    /\ daily_sums = <<>>
    /\ result = NoResult
    /\ fp = NoRounding
    /\ heap = NoHeap

\* A call lotus_widget_daily_count(..., widget_field=args.widget_field).
CallLotusWidgetDailyCount ==
    /\ pc = "start"
    /\ pc' = "lotus_widget_daily_count"
    /\ calls' = LotusWidgetDailyCount(args).calls
    /\ result' = LotusWidgetDailyCount(args).output
    /\ UNCHANGED <<fp, heap, args, keys, drivers, rca, daily_sums>>

NextLotus == CallLotusWidgetDailyCount

SpecLotus == InitLotus /\ [][NextLotus]_vars

-----------------------------------------------------------------------------
(* Claims about compute_shift_share_drivers and run_rca_interaction_rate, *)
(* checked under SpecShift.  The expected values are written out here     *)
(* from the counts in args, independently of the operators above.         *)

ShiftReturned == pc \in {"compute_shift_share_drivers", "run_rca_interaction_rate"}

\* The count a mapping holds for a key, 0 when the key is absent.
CountAt(m, k) == IF k \in DOMAIN m THEN m[k] ELSE 0

\* num / den, taken as 0 when den is 0.
Ratio(num, den) == IF den = 0 THEN RZero ELSE Frac(num, den)

Hundred(x) == RMul(FromInt(100), x)

\* Overall current rate minus overall previous rate, from the four totals.
OverallDelta ==
    RSub(Ratio(args.total_clicks_cur, args.total_visits_cur),
         Ratio(args.total_clicks_prev, args.total_visits_prev))

ShareCur(k)  == Ratio(CountAt(args.per_key_visits_cur, k), args.total_visits_cur)
SharePrev(k) == Ratio(CountAt(args.per_key_visits_prev, k), args.total_visits_prev)
RateCur(k)   == Ratio(CountAt(args.per_key_clicks_cur, k), CountAt(args.per_key_visits_cur, k))
RatePrev(k)  == Ratio(CountAt(args.per_key_clicks_prev, k), CountAt(args.per_key_visits_prev, k))

\* sum over the keys ks of (w_cur - w_prev) * r_prev
RECURSIVE ExpectedMix(_)
ExpectedMix(ks) ==
    IF ks = {} THEN RZero
    ELSE LET k == CHOOSE x \in ks : TRUE
         IN  RAdd(ExpectedMix(ks \ {k}), RMul(RSub(ShareCur(k), SharePrev(k)), RatePrev(k)))

\* sum over the keys ks of ((w_cur + w_prev) / 2) * (r_cur - r_prev)
RECURSIVE ExpectedRate(_)
ExpectedRate(ks) ==
    IF ks = {} THEN RZero
    ELSE LET k == CHOOSE x \in ks : TRUE
         IN  RAdd(ExpectedRate(ks \ {k}),
                  RMul(Frac(ShareCur(k).n * SharePrev(k).d + SharePrev(k).n * ShareCur(k).d,
                            2 * ShareCur(k).d * SharePrev(k).d),
                       RSub(RateCur(k), RatePrev(k))))

\* What the two sums leave of the overall delta.
ExpectedResidual ==
    RSub(OverallDelta, RAdd(ExpectedRate(CohortKeys), ExpectedMix(CohortKeys)))

\* The keys present in any of the four mappings.
UnionOfFour ==
    {k \in CohortKeys : \/ k \in DOMAIN args.per_key_clicks_cur
                        \/ k \in DOMAIN args.per_key_visits_cur
                        \/ k \in DOMAIN args.per_key_clicks_prev
                        \/ k \in DOMAIN args.per_key_visits_prev}

RECURSIVE SumCounts(_, _)
SumCounts(m, ks) ==
    IF ks = {} THEN 0
    ELSE LET k == CHOOSE x \in ks : TRUE IN SumCounts(m, ks \ {k}) + m[k]

\* C1: whatever the totals and the per-cohort mappings (cohort counts that do
\* not sum to the totals included), the returned rate_effect + mix_effect +
\* volume_effect equals delta_rate = 100 x (overall current rate - overall
\* previous rate) computed from the four scalar totals.
C1_ShiftShareIdentity ==
    ShiftReturned =>
        /\ RAdd(RAdd(drivers.rate_effect, drivers.mix_effect), drivers.volume_effect)
              = drivers.delta_rate
        /\ drivers.delta_rate = Hundred(OverallDelta)

\* C1 witness: a direct call whose cohort visits do not sum to the total,
\* whose loop sums leave a residual, and whose delta is not zero.
C1_Witness ==
    /\ pc = "compute_shift_share_drivers"
    /\ SumCounts(args.per_key_visits_cur, DOMAIN args.per_key_visits_cur) # args.total_visits_cur
    /\ ExpectedResidual # RZero
    /\ drivers.delta_rate # RZero
    /\ drivers.mix_effect # RZero

\* C2: the residual correction touches rate_effect only: mix_effect is
\* exactly 100 x sum over the cohort keys of (w_cur - w_prev) * r_prev, with
\* shares and rates 0 on a zero denominator, and volume_effect is 0.
C2_MixAndVolumeUntouched ==
    ShiftReturned =>
        /\ drivers.mix_effect = Hundred(ExpectedMix(CohortKeys))
        /\ drivers.volume_effect = RZero

\* C2 witness: a call where a residual was folded in and the mix is not zero.
C2_Witness ==
    /\ ShiftReturned
    /\ ExpectedResidual # RZero
    /\ ExpectedMix(CohortKeys) # RZero
    /\ drivers.rate_effect # Hundred(ExpectedRate(CohortKeys))

\* C3 as stated: the returned rate_effect equals 100 x sum over the cohort
\* keys of w_avg * (r_cur - r_prev).
C3_RateEffectIsPlainSum ==
    ShiftReturned => drivers.rate_effect = Hundred(ExpectedRate(CohortKeys))

\* The keys and the counts of the cohort rows of the RCA result.
RowKeys == {rca.cohortBreakdown[i].key : i \in 1..Len(rca.cohortBreakdown)}

RowsReadAbsentAsZero ==
    \A i \in 1..Len(rca.cohortBreakdown) :
        LET row == rca.cohortBreakdown[i]
        IN  /\ row.visits = FromInt(CountAt(args.per_key_visits_cur, row.key))
            /\ row.clicks = FromInt(CountAt(args.per_key_clicks_cur, row.key))
            /\ row.visits_prev = FromInt(CountAt(args.per_key_visits_prev, row.key))
            /\ row.clicks_prev = FromInt(CountAt(args.per_key_clicks_prev, row.key))

\* C4 as stated: the key set the decomposition iterates, and the key set of
\* the cohort rows, is the union of the keys of all four mappings, a key
\* absent from a mapping being read as 0.
C4_KeysAreUnionOfFour ==
    ShiftReturned =>
        /\ keys = UnionOfFour
        /\ pc = "run_rca_interaction_rate" =>
              RowKeys = UnionOfFour /\ RowsReadAbsentAsZero

\* C4 amended: run_rca_interaction_rate builds one cohort row for each key
\* of the union of all four mappings (absent read as 0) and hands the
\* decomposition mappings over that union; compute_shift_share_drivers
\* itself iterates the union of the keys of its two visits mappings only.
C4_KeysByCaller ==
    /\ pc = "run_rca_interaction_rate" =>
          /\ RowKeys = UnionOfFour
          /\ Len(rca.cohortBreakdown) = Cardinality(UnionOfFour)
          /\ RowsReadAbsentAsZero
          /\ keys = UnionOfFour
    /\ pc = "compute_shift_share_drivers" =>
          keys = {k \in CohortKeys : \/ k \in DOMAIN args.per_key_visits_cur
                                     \/ k \in DOMAIN args.per_key_visits_prev}

\* C4 witness: an RCA run with a key that only a clicks mapping holds.
C4_Witness ==
    /\ pc = "run_rca_interaction_rate"
    /\ \E k \in RowKeys :
          /\ k \notin DOMAIN args.per_key_visits_cur
          /\ k \notin DOMAIN args.per_key_visits_prev
    /\ \E k \in RowKeys : k \in DOMAIN args.per_key_visits_cur

\* C5: a zero denominator never fails the decomposition: a rate or share
\* over 0 visits is taken as 0 and a result is returned; with all four
\* totals 0 and all four mappings empty every component is 0.
C5_ZeroDenominators ==
    ShiftReturned =>
        /\ args.total_visits_cur = 0 =>
              drivers.delta_rate = Hundred(RNeg(Ratio(args.total_clicks_prev, args.total_visits_prev)))
        /\ args.total_visits_prev = 0 =>
              drivers.delta_rate = Hundred(Ratio(args.total_clicks_cur, args.total_visits_cur))
        /\ (args.total_visits_cur = 0 /\ args.total_visits_prev = 0) =>
              drivers.mix_effect = RZero /\ drivers.rate_effect = RZero
        /\ (\A k \in CohortKeys : CountAt(args.per_key_visits_prev, k) = 0) =>
              drivers.mix_effect = RZero
        /\ (/\ args.total_clicks_cur = 0 /\ args.total_visits_cur = 0
            /\ args.total_clicks_prev = 0 /\ args.total_visits_prev = 0
            /\ UnionOfFour = {}) =>
              drivers = [rate_effect |-> RZero, mix_effect |-> RZero,
                         volume_effect |-> RZero, delta_rate |-> RZero]
        /\ \A f \in DOMAIN drivers : drivers[f].d > 0

\* C5 witness: a direct call with clicks but no visits in the current
\* total, and a cohort with previous clicks and no previous visits beside a
\* cohort that has a current share.
C5_Witness ==
    /\ pc = "compute_shift_share_drivers"
    /\ args.total_visits_cur = 0 /\ args.total_clicks_cur > 0
    /\ args.total_visits_prev > 0
    /\ \E k \in CohortKeys :
          /\ CountAt(args.per_key_visits_prev, k) = 0
          /\ CountAt(args.per_key_clicks_prev, k) > 0
          /\ CountAt(args.per_key_visits_cur, k) > 0

\* C20: for every cohort row, contribution_to_delta is
\* (visits_current / max(total_visits_current, 1)) x (rate_current -
\* rate_previous) with the rates in the x100 percentage domain and
\* total_visits_current the sum of the current-period daily visit series;
\* when that sum is 0 the divisor is 1.
C20_ContributionToDelta ==
    pc = "run_rca_interaction_rate" =>
        \A i \in 1..Len(rca.cohortBreakdown) :
            LET row     == rca.cohortBreakdown[i]
                visits  == CountAt(args.per_key_visits_cur, row.key)
                divisor == IF args.total_visits_cur > 1 THEN args.total_visits_cur ELSE 1
                change  == RSub(Hundred(RateCur(row.key)), Hundred(RatePrev(row.key)))
            IN  /\ row.rate = Hundred(RateCur(row.key))
                /\ row.rate_prev = Hundred(RatePrev(row.key))
                /\ row.contribution_to_delta.d > 0
                /\ row.contribution_to_delta.n * divisor * change.d =
                       visits * change.n * row.contribution_to_delta.d
                /\ args.total_visits_cur = 0 =>
                       row.contribution_to_delta = RMul(FromInt(visits), change)

\* C20 witness: with no current-period visits in the daily series, a cohort
\* of two visits whose rate fell from 100% to 0% contributes -200.
C20_Witness ==
    /\ pc = "run_rca_interaction_rate"
    /\ args.total_visits_cur = 0
    /\ \E i \in 1..Len(rca.cohortBreakdown) :
          /\ rca.cohortBreakdown[i].visits = [n |-> 2, d |-> 1]
          /\ rca.cohortBreakdown[i].rate = [n |-> 0, d |-> 1]
          /\ rca.cohortBreakdown[i].rate_prev = [n |-> 100, d |-> 1]
          /\ rca.cohortBreakdown[i].contribution_to_delta = [n |-> -200, d |-> 1]

\* The keys of the two visits mappings.
VisitsKeys == DOMAIN args.per_key_visits_cur \cup DOMAIN args.per_key_visits_prev

\* C23: compute_shift_share_drivers iterates only the keys of the two visits
\* mappings, yet its result is the one obtained by iterating the union of
\* the keys of all four mappings: a key that appears only in a clicks
\* mapping has visits 0 in both periods and adds 0 to rate_effect and to
\* mix_effect.
C23_ClicksOnlyKeysAddNothing ==
    pc = "compute_shift_share_drivers" =>
        /\ keys = VisitsKeys
        /\ \A k \in UnionOfFour \ VisitsKeys :
              /\ ShareCur(k) = RZero /\ SharePrev(k) = RZero
              /\ RateTerm(args, k) = RZero
              /\ MixTerm(args, k) = RZero
        /\ ExpectedRate(UnionOfFour) = ExpectedRate(VisitsKeys)
        /\ ExpectedMix(UnionOfFour) = ExpectedMix(VisitsKeys)
        /\ drivers.mix_effect = Hundred(ExpectedMix(UnionOfFour))
        /\ drivers.rate_effect =
              Hundred(RSub(OverallDelta, ExpectedMix(UnionOfFour)))

\* C23 witness: a direct call in which cohort "b" has clicks but appears in
\* neither visits mapping, and the mix effect is not zero.
C23_Witness ==
    /\ pc = "compute_shift_share_drivers"
    /\ "b" \in DOMAIN args.per_key_clicks_cur
    /\ args.per_key_clicks_cur["b"] > 0
    /\ "b" \notin VisitsKeys
    /\ "a" \in DOMAIN args.per_key_visits_prev
    /\ "a" \notin DOMAIN args.per_key_visits_cur
    /\ drivers.mix_effect # RZero

-----------------------------------------------------------------------------
(* Claims about calculate_trend_analysis, checked under SpecTrend.         *)

TrendReturned == pc = "calculate_trend_analysis"

\* The counts of the call in date order.
SortedCounts == ValuesOf(SortByDate(daily_sums))

\* C6: a call with 0 or 1 observations returns the insufficient-data marker
\* as a value and computes none of the statistics: the result holds the
\* error entry and nothing else.
C6_InsufficientDataMarker ==
    (TrendReturned /\ Len(daily_sums) < 2) =>
        /\ DOMAIN result = {"error"}
        /\ result.error = "Need at least 2 days of data for trend analysis"

\* C6 witness: a call with a single observation has returned the marker.
C6_Witness ==
    /\ TrendReturned
    /\ Len(daily_sums) = 1
    /\ "error" \in DOMAIN result

\* direction follows the sign of the slope
DirectionFollowsSlope ==
    /\ (result.trend.direction = "increasing") <=> (result.trend.slope.n > 0)
    /\ (result.trend.direction = "decreasing") <=> (result.trend.slope.n < 0)
    /\ (result.trend.direction = "stable") <=> (result.trend.slope.n = 0)

\* C7 as stated: with fewer than 2 observations the returned trend has
\* direction "insufficient_data" and slope 0; with 2 or more the direction
\* is increasing / decreasing / stable as the slope is > 0 / < 0 / = 0.
C7_DirectionInsufficientData ==
    TrendReturned =>
        /\ Len(daily_sums) < 2 =>
              /\ "trend" \in DOMAIN result
              /\ result.trend.direction = "insufficient_data"
              /\ result.trend.slope = RZero
        /\ Len(daily_sums) >= 2 => DirectionFollowsSlope

\* C7 amended: with fewer than 2 observations the result is the error marker
\* and holds no trend at all (direction "insufficient_data" is never
\* returned); with 2 or more the direction is increasing / decreasing /
\* stable as the slope is > 0 / < 0 / = 0.
C7_DirectionOnlyWithTwoDays ==
    TrendReturned =>
        /\ Len(daily_sums) < 2 => "trend" \notin DOMAIN result
        /\ Len(daily_sums) >= 2 =>
              /\ DirectionFollowsSlope
              /\ result.trend.direction # "insufficient_data"

\* C7 witness: a call with no observation has returned, without a trend.
C7_Witness ==
    /\ TrendReturned
    /\ Len(daily_sums) = 0
    /\ DOMAIN result = {"error"}

\* The values 10, 10, 10, 10, 100 on five consecutive days, in any input order.
FiveDaysTenToHundred ==
    /\ TrendReturned
    /\ {daily_sums[i].date : i \in 1..Len(daily_sums)} = 1..5
    /\ SortedCounts = <<10, 10, 10, 10, 100>>

\* The dates and values of the reported outliers.
OutlierDays == [i \in 1..Len(result.outliers) |->
                   [date |-> result.outliers[i].date, sum_count |-> result.outliers[i].value]]

\* C8 as stated: for the values 10, 10, 10, 10, 100 on five consecutive days
\* the day with value 100 is flagged an outlier and no day with value 10 is.
C8_HundredIsFlagged ==
    FiveDaysTenToHundred =>
        /\ Len(result.outliers) = 1
        /\ result.outliers[1].value = 100

\* C8 amended: for the values 10, 10, 10, 10, 100 the mean is 28 and the
\* population standard deviation is exactly 36, so the value 100 has
\* |z| = 2.0 exactly, which does not exceed 2.0: no day is flagged.
C8_NothingIsFlagged ==
    FiveDaysTenToHundred =>
        /\ result.outliers = <<>>
        /\ result.statistics.mean = FromInt(28)
        /\ result.statistics.std_deviation.radicand = FromInt(36 * 36)
        /\ ZScore(100, result.statistics.mean, result.statistics.std_deviation).square = FromInt(4)

\* C8 witness: the five values were analysed, handed over out of date order.
C8_Witness ==
    /\ FiveDaysTenToHundred
    /\ \E i \in 1..4 : daily_sums[i].date > daily_sums[i + 1].date
    /\ "outliers" \in DOMAIN result

RECURSIVE SumOfCounts(_)
SumOfCounts(days) ==
    IF days = <<>> THEN 0 ELSE SumOfCounts(Tail(days)) + Head(days).sum_count

RECURSIVE SumOfSquares(_)
SumOfSquares(days) ==
    IF days = <<>> THEN 0
    ELSE SumOfSquares(Tail(days)) + Head(days).sum_count * Head(days).sum_count

\* n^2 x population variance = n x sum of squares - (sum)^2
ScaledVariance == Len(daily_sums) * SumOfSquares(daily_sums)
                      - SumOfCounts(daily_sums) * SumOfCounts(daily_sums)

\* |value - mean| > 2 x population std_dev, on the squares scaled by n^2;
\* where the two are equal and the std_dev is positive, the float z-score
\* is -2.0 or 2.0 or a neighbour of it, and the day is far from the mean
\* iff the rounding carried the z-score beyond.
FarFromMean(day) ==
    LET dev == Len(daily_sums) * day.sum_count - SumOfCounts(daily_sums)
    IN  \/ dev * dev > 4 * ScaledVariance
        \/ /\ dev * dev = 4 * ScaledVariance
           /\ ScaledVariance > 0
           /\ day.sum_count \in fp.z_beyond

\* C9: a day is in the outlier list iff |value - mean| > 2 x std_dev with
\* the population mean and standard deviation of all the values; a zero
\* std_dev leaves the list empty; the list is in ascending date order.
C9_OutlierRule ==
    (TrendReturned /\ Len(daily_sums) >= 2) =>
        /\ OutlierDays = SelectSeq(SortByDate(daily_sums), FarFromMean)
        /\ ScaledVariance = 0 => result.outliers = <<>>
        /\ \A i, j \in 1..Len(result.outliers) :
              i < j => result.outliers[i].date <= result.outliers[j].date

\* C9 witness: a low outlier was reported for days handed over out of date
\* order, its value two standard deviations below the mean and its float
\* z-score rounded beyond -2.0 (the values 2, 5, 5, 5, 5 give
\* -2.0000000000000004).
C9_Witness ==
    /\ TrendReturned
    /\ "outliers" \in DOMAIN result
    /\ Len(result.outliers) >= 1
    /\ result.outliers[1].z_score.sign < 0
    /\ result.outliers[1].z_score.square = FromInt(4)
    /\ \E i \in 1..(Len(daily_sums) - 1) : daily_sums[i].date > daily_sums[i + 1].date

\* C10: the reported median is the element at 0-based index floor(n / 2) of
\* the ascending-sorted values, that is the value m with at most floor(n / 2)
\* values below it and more than floor(n / 2) values not above it; for the
\* values 1, 2, 3, 4 it is 3.
C10_MedianIndex ==
    (TrendReturned /\ Len(daily_sums) >= 2) =>
        LET n     == Len(daily_sums)
            m     == result.statistics.median
            below == Cardinality({i \in 1..n : daily_sums[i].sum_count < m})
            upto  == Cardinality({i \in 1..n : daily_sums[i].sum_count <= m})
        IN  /\ \E i \in 1..n : daily_sums[i].sum_count = m
            /\ below <= n \div 2
            /\ n \div 2 < upto
            /\ (n = 4 /\ {daily_sums[i].sum_count : i \in 1..n} = {1, 2, 3, 4}) => m = 3

\* C10 witness: the values 1, 2, 3, 4 were analysed, in another order.
C10_Witness ==
    /\ TrendReturned
    /\ Len(daily_sums) = 4
    /\ {daily_sums[i].sum_count : i \in 1..4} = {1, 2, 3, 4}
    /\ SortedCounts # <<1, 2, 3, 4>>
    /\ result.statistics.median = 3

\* The number of observed values below m, and not above m.
CountBelow(m) == Cardinality({i \in 1..Len(daily_sums) : daily_sums[i].sum_count < m})
CountUpTo(m)  == Cardinality({i \in 1..Len(daily_sums) : daily_sums[i].sum_count <= m})

\* The value at 0-based position k of the observed values in ascending order.
OrderStatistic(k) ==
    CHOOSE m \in {daily_sums[i].sum_count : i \in 1..Len(daily_sums)} :
        CountBelow(m) <= k /\ k < CountUpTo(m)

EvenLengthReturned ==
    TrendReturned /\ Len(daily_sums) >= 2 /\ Len(daily_sums) % 2 = 0

\* C11 as stated: for every even-length value sequence the reported median
\* is the lower of the two middle elements of the sorted sequence.
C11_LowerMedian ==
    EvenLengthReturned =>
        result.statistics.median = OrderStatistic((Len(daily_sums) \div 2) - 1)

\* C11 amended: for every even-length value sequence the reported median is
\* the upper of the two middle elements of the sorted sequence (0-based
\* index n / 2), with no averaging: when the two middle elements differ it
\* is neither the lower one nor their mean.
C11_UpperMedian ==
    EvenLengthReturned =>
        LET lower == OrderStatistic((Len(daily_sums) \div 2) - 1)
            upper == OrderStatistic(Len(daily_sums) \div 2)
            m     == result.statistics.median
        IN  /\ m = upper
            /\ lower # upper => (m # lower /\ 2 * m # lower + upper)

\* C11 witness: a six-value sequence whose two middle elements differ was
\* analysed and the upper one reported.
C11_Witness ==
    /\ TrendReturned
    /\ Len(daily_sums) = 6
    /\ OrderStatistic(2) < OrderStatistic(3)
    /\ result.statistics.median = OrderStatistic(3)

\* Entry j of the change list pairs sorted day j + 1 with sorted day j.
ChangePairsDays(changes, sorted_days) ==
    \A j \in 1..Len(changes) :
        /\ changes[j].date = sorted_days[j + 1].date
        /\ changes[j].previous_date = sorted_days[j].date
        /\ changes[j].current_value = sorted_days[j + 1].sum_count
        /\ changes[j].previous_value = sorted_days[j].sum_count
        /\ changes[j].absolute_change =
               changes[j].current_value - changes[j].previous_value

\* C12 as stated: for every series of n >= 1 observations the
\* day_over_day_changes list has exactly n - 1 entries, entry j pairs sorted
\* day j + 1 with sorted day j, and absolute_change is current_value minus
\* previous_value.
C12_ChangesForOneOrMoreDays ==
    (TrendReturned /\ Len(daily_sums) >= 1) =>
        /\ "day_over_day_changes" \in DOMAIN result
        /\ Len(result.day_over_day_changes) = Len(daily_sums) - 1
        /\ ChangePairsDays(result.day_over_day_changes, SortByDate(daily_sums))

\* C12 amended: the same for every series of n >= 2 observations; a series
\* of one observation returns the error marker, which has no
\* day_over_day_changes list.
C12_ChangesForTwoOrMoreDays ==
    TrendReturned =>
        /\ Len(daily_sums) >= 2 =>
              /\ "day_over_day_changes" \in DOMAIN result
              /\ Len(result.day_over_day_changes) = Len(daily_sums) - 1
              /\ ChangePairsDays(result.day_over_day_changes, SortByDate(daily_sums))
        /\ Len(daily_sums) = 1 => "day_over_day_changes" \notin DOMAIN result

\* C12 witness: three or more days handed over out of date order gave one
\* change fewer than days, one of them a drop.
C12_Witness ==
    /\ TrendReturned
    /\ Len(daily_sums) >= 3
    /\ daily_sums[1].date > daily_sums[2].date
    /\ "day_over_day_changes" \in DOMAIN result
    /\ Len(result.day_over_day_changes) = Len(daily_sums) - 1
    /\ \E j \in 1..Len(result.day_over_day_changes) :
          result.day_over_day_changes[j].absolute_change < 0

\* C13: in every day-over-day change whose previous_value is 0 the
\* percentage_change is exactly 0, whatever current_value is; otherwise it is
\* (current_value - previous_value) / previous_value x 100.
C13_PercentageChange ==
    (TrendReturned /\ Len(daily_sums) >= 2) =>
        \A j \in 1..Len(result.day_over_day_changes) :
            LET c == result.day_over_day_changes[j]
            IN  /\ c.previous_value = 0 => c.percentage_change = [n |-> 0, d |-> 1]
                /\ c.previous_value # 0 =>
                      c.percentage_change.n * c.previous_value =
                          (c.current_value - c.previous_value) * 100 * c.percentage_change.d

\* C13 witness: a change from 0 to a positive value was reported with
\* percentage_change 0, next to a change from a non-zero value.
C13_Witness ==
    /\ TrendReturned
    /\ "day_over_day_changes" \in DOMAIN result
    /\ \E j, k \in 1..Len(result.day_over_day_changes) :
          /\ result.day_over_day_changes[j].previous_value = 0
          /\ result.day_over_day_changes[j].current_value > 0
          /\ result.day_over_day_changes[j].percentage_change.n = 0
          /\ result.day_over_day_changes[k].previous_value > 0
          /\ result.day_over_day_changes[k].percentage_change.n < 0

\* C16: for every strictly increasing value series of length >= 2 the slope
\* over the day index is > 0 and the direction is "increasing"; for every
\* constant series of length >= 2 the slope is exactly 0 and the direction
\* is "stable".
C16_SlopeOfMonotoneSeries ==
    (TrendReturned /\ Len(daily_sums) >= 2) =>
        LET n == Len(daily_sums)
        IN  /\ (\A i \in 1..(n - 1) : SortedCounts[i] < SortedCounts[i + 1]) =>
                  /\ result.trend.slope.n > 0
                  /\ result.trend.direction = "increasing"
            /\ (\A i \in 1..(n - 1) : SortedCounts[i] = SortedCounts[i + 1]) =>
                  /\ result.trend.slope = [n |-> 0, d |-> 1]
                  /\ result.trend.direction = "stable"

\* C16 witness: the values 1, 2, 3, 4 by date, handed over out of date
\* order, were reported as increasing by one per day.
C16_Witness ==
    /\ TrendReturned
    /\ SortedCounts = <<1, 2, 3, 4>>
    /\ \E i \in 1..3 : daily_sums[i].date > daily_sums[i + 1].date
    /\ result.trend.direction = "increasing"
    /\ result.trend.slope = [n |-> 1, d |-> 1]

\* C17: the reported statistics of a value sequence satisfy
\* min <= mean <= max, std_deviation >= 0 and range = max - min, where min
\* and max are the smallest and the largest value and mean their arithmetic
\* mean.
C17_StatisticsBounds ==
    (TrendReturned /\ "statistics" \in DOMAIN result) =>
        LET st     == result.statistics
            n      == Len(daily_sums)
            counts == {daily_sums[i].sum_count : i \in 1..n}
        IN  /\ st.min \in counts /\ \A c \in counts : st.min <= c
            /\ st.max \in counts /\ \A c \in counts : c <= st.max
            /\ st.mean.d > 0
            /\ st.mean.n * n = SumOfCounts(daily_sums) * st.mean.d
            /\ st.min * st.mean.d <= st.mean.n
            /\ st.mean.n <= st.max * st.mean.d
            /\ st.std_deviation.radicand.d > 0
            /\ st.std_deviation.radicand.n >= 0
            /\ st.range = st.max - st.min

\* C17 witness: statistics were reported with the mean strictly between the
\* minimum and the maximum and a positive standard deviation.
C17_Witness ==
    /\ TrendReturned
    /\ "statistics" \in DOMAIN result
    /\ result.statistics.min * result.statistics.mean.d < result.statistics.mean.n
    /\ result.statistics.mean.n < result.statistics.max * result.statistics.mean.d
    /\ result.statistics.std_deviation.radicand.n > 0
    /\ result.statistics.range = 100

-----------------------------------------------------------------------------
(* Claims about calculate_trend_analysis on the longer series, checked     *)
(* under SpecLong.                                                         *)

\* The sum of a sequence of counts.
RECURSIVE SumOfValues(_)
SumOfValues(counts) ==
    IF counts = <<>> THEN 0 ELSE SumOfValues(Tail(counts)) + Head(counts)

\* avg is the arithmetic mean of the min(i, w) counts at the 1-based
\* positions max(1, i - w + 1)..i of the counts in date order.
IsTrailingMean(avg, counts, i, w) ==
    LET lo == IF i - w + 1 > 1 THEN i - w + 1 ELSE 1
    IN  avg.n * (i - lo + 1) = SumOfValues(SubSeq(counts, lo, i)) * avg.d

\* C14: for the windows 7 and 14 and every position i of the date-sorted
\* series, the moving average at i is the arithmetic mean of the min(i+1, W)
\* values at 0-based indices max(0, i-W+1)..i, never of a later value; the
\* moving average at index 0 is the first value.
C14_MovingAverages ==
    (TrendReturned /\ Len(daily_sums) >= 2) =>
        LET counts == SortedCounts
            data   == result.enhanced_daily_data
        IN  /\ Len(data) = Len(daily_sums)
            /\ \A i \in 1..Len(daily_sums) :
                  /\ IsTrailingMean(data[i].moving_avg_7day, counts, i, 7)
                  /\ IsTrailingMean(data[i].moving_avg_14day, counts, i, 14)
            /\ data[1].moving_avg_7day = [n |-> counts[1], d |-> 1]
            /\ data[1].moving_avg_14day = [n |-> counts[1], d |-> 1]

\* C14 witness: on the last of fifteen days the three averages differ (the
\* 14-day window has dropped the first day, the 7-day window eight days),
\* and the first day's value is not zero.
C14_Witness ==
    /\ TrendReturned
    /\ Len(daily_sums) = 15
    /\ SortedCounts[1] > 0
    /\ result.enhanced_daily_data[15].moving_avg_14day # result.statistics.mean
    /\ result.enhanced_daily_data[15].moving_avg_14day #
           result.enhanced_daily_data[15].moving_avg_7day
    /\ result.enhanced_daily_data[7].moving_avg_7day #
           result.enhanced_daily_data[8].moving_avg_7day

\* The sums of the seven counts ending the day before 1-based position i of
\* the counts in date order, and ending at position i.
PrevWeekSum(counts, i) == SumOfValues(SubSeq(counts, i - 7, i - 1))
CurrWeekSum(counts, i) == SumOfValues(SubSeq(counts, i - 6, i))

\* The relative shift from prev_avg to curr_avg exceeds 15% in absolute
\* value; a zero prev_avg counts as no shift.  Where the shift is 15% of
\* prev_avg, the float shift_pct is a neighbour of -15.0 or 15.0, and it
\* exceeds iff the rounding carried it beyond.
ShiftExceeds(counts, i) ==
    /\ PrevWeekSum(counts, i) > 0
    /\ \/ Abs(CurrWeekSum(counts, i) - PrevWeekSum(counts, i)) * 100
              > 15 * PrevWeekSum(counts, i)
       \/ /\ Abs(CurrWeekSum(counts, i) - PrevWeekSum(counts, i)) * 100
                 = 15 * PrevWeekSum(counts, i)
          /\ i \in fp.shift_beyond

\* The 1-based sorted positions that hold a break: 0-based index >= 7.
BreakPositions(counts) == {i \in 8..Len(counts) : ShiftExceeds(counts, i)}

\* C15: trend_breaks holds an entry for sorted index i iff i >= 7 and the
\* relative shift from prev_avg (mean of values i-7..i-1) to curr_avg (mean
\* of values i-6..i) exceeds 15% in absolute value, a zero prev_avg counting
\* as no shift; the list is empty for every series shorter than 8
\* observations; shift_type is "increase" iff the shift is positive.
C15_TrendBreaks ==
    (TrendReturned /\ Len(daily_sums) >= 2) =>
        LET sorted_days == SortByDate(daily_sums)
            counts      == ValuesOf(sorted_days)
            positions   == BreakPositions(counts)
            breaks      == result.trend_breaks
        IN  /\ Len(breaks) = Cardinality(positions)
            /\ {breaks[j].date : j \in 1..Len(breaks)} =
                   {sorted_days[i].date : i \in positions}
            /\ \A j, k \in 1..Len(breaks) : j < k => breaks[j].date < breaks[k].date
            /\ \A j \in 1..Len(breaks) : \A i \in positions :
                  sorted_days[i].date = breaks[j].date =>
                      /\ (breaks[j].shift_type = "increase")
                             <=> (CurrWeekSum(counts, i) > PrevWeekSum(counts, i))
                      /\ breaks[j].shift_type \in {"increase", "decrease"}
                      /\ breaks[j].shift_percentage.n * PrevWeekSum(counts, i) =
                             (CurrWeekSum(counts, i) - PrevWeekSum(counts, i)) * 100
                                 * breaks[j].shift_percentage.d
            /\ Len(daily_sums) < 8 => breaks = <<>>

\* C15 witness: a series whose first week is all zero and whose eighth day
\* is not (a zero prev_avg, no break there), with upward breaks reported on
\* later days.
C15_Witness ==
    /\ TrendReturned
    /\ Len(daily_sums) >= 9
    /\ PrevWeekSum(SortedCounts, 8) = 0
    /\ CurrWeekSum(SortedCounts, 8) > 0
    /\ Len(result.trend_breaks) >= 1
    /\ \A j \in 1..Len(result.trend_breaks) :
          /\ result.trend_breaks[j].date # SortByDate(daily_sums)[8].date
          /\ result.trend_breaks[j].shift_type = "increase"

\* percentage_change of a exceeds that of b
PctGreater(a, b) ==
    a.percentage_change.n * b.percentage_change.d
        > b.percentage_change.n * a.percentage_change.d

\* The 0-based place of change j of the chronological list when the list is
\* ordered by descending (ascending) percentage_change with equal changes
\* kept in chronological order.
PlaceDescending(changes, j) ==
    Cardinality({i \in 1..Len(changes) : PctGreater(changes[i], changes[j])})
        + Cardinality({i \in 1..(j - 1) : ~PctGreater(changes[i], changes[j])
                                            /\ ~PctGreater(changes[j], changes[i])})
PlaceAscending(changes, j) ==
    Cardinality({i \in 1..Len(changes) : PctGreater(changes[j], changes[i])})
        + Cardinality({i \in 1..(j - 1) : ~PctGreater(changes[i], changes[j])
                                            /\ ~PctGreater(changes[j], changes[i])})

\* C18: largest_increases is the first min(5, n - 1) day-over-day changes in
\* descending percentage_change order, largest_decreases the first
\* min(5, n - 1) in ascending order; in both, changes with equal
\* percentage_change appear in chronological order.
C18_LargestChanges ==
    (TrendReturned /\ Len(daily_sums) >= 2) =>
        LET changes == result.day_over_day_changes
            n       == Len(daily_sums)
            k       == IF n - 1 < 5 THEN n - 1 ELSE 5
        IN  /\ Len(result.largest_increases) = k
            /\ Len(result.largest_decreases) = k
            /\ \A j \in 1..Len(changes) :
                  /\ PlaceDescending(changes, j) < k =>
                        result.largest_increases[PlaceDescending(changes, j) + 1] = changes[j]
                  /\ PlaceAscending(changes, j) < k =>
                        result.largest_decreases[PlaceAscending(changes, j) + 1] = changes[j]

\* C18 witness: of more than five changes the five largest were kept; the
\* second and third of them are equal changes of different days, the
\* earlier day first, and the largest decrease is a drop.
C18_Witness ==
    /\ TrendReturned
    /\ Len(daily_sums) >= 7
    /\ Len(result.largest_increases) = 5
    /\ result.largest_increases[1].percentage_change.n > 0
    /\ result.largest_increases[2].percentage_change = result.largest_increases[3].percentage_change
    /\ result.largest_increases[2].percentage_change.n > 0
    /\ result.largest_increases[2].date < result.largest_increases[3].date
    /\ result.largest_decreases[1].percentage_change.n < 0
    /\ result.largest_decreases[5].percentage_change.n > 0

-----------------------------------------------------------------------------
(* Claims about the ranking of run_rca_interaction_rate, checked under     *)
(* SpecRca.                                                                *)

RcaReturned == pc = "run_rca_interaction_rate"

\* abs(contribution_to_delta) of row a exceeds that of row b: by the exact
\* values, and where these are equal by the ranks of the floats.
AbsGreater(a, b) ==
    \/ Abs(a.contribution_to_delta.n) * b.contribution_to_delta.d
           > Abs(b.contribution_to_delta.n) * a.contribution_to_delta.d
    \/ /\ Abs(a.contribution_to_delta.n) * b.contribution_to_delta.d
             = Abs(b.contribution_to_delta.n) * a.contribution_to_delta.d
       /\ fp.rank[a.key] > fp.rank[b.key]

\* The 0-based place of cohort row j in the ranking: the rows of larger
\* absolute contribution come first, then the earlier rows of equal one.
PlaceInRanking(rows, j) ==
    Cardinality({i \in 1..Len(rows) : AbsGreater(rows[i], rows[j])})
        + Cardinality({i \in 1..(j - 1) : ~AbsGreater(rows[i], rows[j])
                                            /\ ~AbsGreater(rows[j], rows[i])})

\* The cohort rows are A, B and C with contributions +5, -8 and +2.
ExampleCohorts ==
    /\ Len(rca.cohortBreakdown) = 3
    /\ \A i \in 1..3 :
          LET r == rca.cohortBreakdown[i]
          IN  \/ r.key = "A" /\ r.contribution_to_delta = [n |-> 5, d |-> 1]
              \/ r.key = "B" /\ r.contribution_to_delta = [n |-> -8, d |-> 1]
              \/ r.key = "C" /\ r.contribution_to_delta = [n |-> 2, d |-> 1]

\* C19: for a count top_x, topContributors is the first
\* min(top_x, number of cohort rows) rows of the cohort rows sorted by
\* abs(contribution_to_delta) descending, rows of equal absolute contribution
\* keeping their cohort-row order; for cohorts A(+5), B(-8), C(+2) and
\* top_x = 2 the result is [B, A].
C19_TopContributors ==
    (RcaReturned /\ args.top_x >= 0) =>
        LET rows == rca.cohortBreakdown
            tops == rca.topContributors
            k    == IF args.top_x < Len(rows) THEN args.top_x ELSE Len(rows)
        IN  /\ Len(tops) = k
            /\ \A j \in 1..Len(rows) :
                  PlaceInRanking(rows, j) < k => tops[PlaceInRanking(rows, j) + 1] = rows[j]
            /\ (ExampleCohorts /\ args.top_x = 2) =>
                  [i \in 1..Len(tops) |-> tops[i].key] = <<"B", "A">>

\* C19 witness: the cohort rows C(+2), A(+5), B(-8), in that order, were
\* ranked with top_x = 2.
C19_Witness ==
    /\ RcaReturned
    /\ args.top_x = 2
    /\ ExampleCohorts
    /\ [i \in 1..3 |-> rca.cohortBreakdown[i].key] = <<"C", "A", "B">>
    /\ Len(rca.topContributors) = 2
    /\ rca.topContributors[1].key = "B"

-----------------------------------------------------------------------------
(* Claims about the order of the observations, checked under SpecPerm.     *)

DistinctDates ==
    \A i, j \in 1..Len(daily_sums) :
        daily_sums[i].date = daily_sums[j].date => i = j

\* The observations arranged by ascending date: position i holds the day
\* with exactly i - 1 earlier days.
DaysInDateOrder ==
    [i \in 1..Len(daily_sums) |->
        daily_sums[CHOOSE j \in 1..Len(daily_sums) :
            Cardinality({k \in 1..Len(daily_sums) :
                daily_sums[k].date < daily_sums[j].date}) = i - 1]]

StrictlyAscendingDates(records) ==
    \A i, j \in 1..Len(records) : i < j => records[i].date < records[j].date

\* C21: the input is sorted ascending by date before any computation: for
\* pairwise distinct dates the whole result is the one of the date-ordered
\* arrangement, whatever the order of the input list, and
\* day_over_day_changes and enhanced_daily_data are in strictly ascending
\* date order.
C21_OrderOfInputIrrelevant ==
    (TrendReturned /\ DistinctDates) =>
        /\ result = CalculateTrendAnalysis(DaysInDateOrder, fp)
        /\ Len(daily_sums) >= 2 =>
              /\ StrictlyAscendingDates(result.day_over_day_changes)
              /\ StrictlyAscendingDates(result.enhanced_daily_data)
              /\ [i \in 1..Len(daily_sums) |->
                     [date |-> result.enhanced_daily_data[i].date,
                      sum_count |-> result.enhanced_daily_data[i].sum_count]]
                    = DaysInDateOrder

\* C21 witness: four days handed over latest first, with different counts,
\* were reported earliest first.
C21_Witness ==
    /\ TrendReturned
    /\ Len(daily_sums) = 4
    /\ \A i \in 1..3 : daily_sums[i].date > daily_sums[i + 1].date
    /\ daily_sums[1].sum_count # daily_sums[4].sum_count
    /\ result.enhanced_daily_data[1].date = daily_sums[4].date
    /\ result.day_over_day_changes[1].previous_date = daily_sums[4].date

-----------------------------------------------------------------------------
(* Claims about repeated calls, checked under SpecFrame.                   *)

\* The objects that existed before the step are as they were.
ObjectsKept == \A ref \in 1..Len(heap) : heap'[ref] = heap[ref]

\* What every call must leave alone, and what a second call must return:
\* the caller's list holds the same days in the same order and its mappings
\* the same entries, no object the caller held was written to, and the
\* second call returns what the first returned.
FrameStep ==
    /\ pc' \in {"calculate_trend_analysis", "calculate_trend_analysis_again"} =>
          /\ daily_sums' = daily_sums
          /\ ObjectsKept
    /\ pc' \in {"compute_shift_share_drivers", "compute_shift_share_drivers_again"} =>
          /\ args'.per_key_clicks_cur = args.per_key_clicks_cur
          /\ args'.per_key_visits_cur = args.per_key_visits_cur
          /\ args'.per_key_clicks_prev = args.per_key_clicks_prev
          /\ args'.per_key_visits_prev = args.per_key_visits_prev
          /\ ObjectsKept
    /\ pc' = "calculate_trend_analysis_again" => result' = result
    /\ pc' = "compute_shift_share_drivers_again" => drivers' = drivers

\* C22: calculate_trend_analysis and compute_shift_share_drivers leave their
\* arguments unchanged: after the call the observation list (order and
\* contents) and the four cohort mappings are as before the call, and a
\* second call with the same arguments returns the same result.
C22_ArgumentsUnchanged == [][FrameStep]_vars

\* C22 witness: a list of three days handed over out of date order has been
\* analysed twice and is still out of date order.
C22_Witness ==
    /\ pc = "calculate_trend_analysis_again"
    /\ Len(daily_sums) = 3
    /\ daily_sums[1].date > daily_sums[2].date
    /\ "statistics" \in DOMAIN result
    /\ DaysAt(heap, ArgumentRefs.daily_sums) = daily_sums
    /\ Len(heap) = Len(HeapOf(args, daily_sums)) + 2

-----------------------------------------------------------------------------
(* Claims about agent_runner.main, checked under SpecMain.                 *)

\* The question mentions the phrase in some letter case.
AsksAboutInteractionRate ==
    \E i \in 1..Len(args.question) :
        args.question[i] \in {"interaction rate", "Interaction Rate"}
AsksAboutRca ==
    \E i \in 1..Len(args.question) : args.question[i] \in {"rca", "RCA"}

Invoked(f) == \E i \in 1..Len(calls) : calls[i] = f

\* C24: every question containing "interaction rate" is answered by the
\* first branch (clicks over visits plus the session-based analysis) and
\* main returns; run_rca_interaction_rate is invoked for no question at all,
\* questions containing both "rca" and "interaction rate" included.
C24_RcaNeverInvoked ==
    pc = "main" =>
        /\ AsksAboutInteractionRate =>
              /\ calls = <<"run_interaction_rate_clicks_over_visits",
                           "run_interaction_rate_analysis">>
              /\ result = [answer |-> <<"clicks_over_visits", "sessions_based">>]
        /\ ~AsksAboutInteractionRate =>
              /\ calls = <<>>
              /\ DOMAIN result = {"info", "question"}
              /\ result.question = args.question
        /\ ~Invoked("run_rca_interaction_rate")

\* C24 witness: a question with both "RCA" and "interaction rate" got the
\* first branch's answer.
C24_Witness ==
    /\ pc = "main"
    /\ AsksAboutRca
    /\ AsksAboutInteractionRate
    /\ args.question[1] = "RCA"
    /\ Invoked("run_interaction_rate_analysis")
    /\ "answer" \in DOMAIN result

-----------------------------------------------------------------------------
(* Claims about lotus_widget_daily_count, checked under SpecLotus.         *)

LotusReturned == pc = "lotus_widget_daily_count"

\* The strategies the call may use, in their order.
Planned ==
    IF args.widget_field \in {"None", ""}
    THEN <<"widget_field_filter", "store_id_filter", "unfiltered">>
    ELSE <<"widget_field_filter", "store_id_filter">>

\* The strategies the call has run, in the order it ran them.
IsStrategy(name) == name \in {"widget_field_filter", "store_id_filter", "unfiltered"}
Attempted == SelectSeq(calls, IsStrategy)

Failed(strategy) == args.responses[strategy].raised

\* The counts of the days of a strategy's answer.
DayCount(bucket) == IF args.is_counter THEN bucket.total ELSE bucket.doc_count

\* The strategy's series has at least one day with count > 0.
Yields(strategy) ==
    /\ ~Failed(strategy)
    /\ \E i \in 1..Len(args.responses[strategy].buckets) :
          DayCount(args.responses[strategy].buckets[i]) > 0

\* The date of a row: the bucket's key_as_string, or without one the local
\* calendar day of its key.
DayDate(bucket) ==
    IF bucket.key_as_string # "" THEN bucket.key_as_string
    ELSE FormatDay((bucket.key.s + args.utc_offset) \div 86400)

SeriesOf(strategy) ==
    [i \in 1..Len(args.responses[strategy].buckets) |->
        [date |-> DayDate(args.responses[strategy].buckets[i]),
         count |-> DayCount(args.responses[strategy].buckets[i])]]

\* C25: the strategies are tried strictly in the order widget-field filter,
\* storeId filter, unfiltered; the series of the first strategy whose series
\* has a day with count > 0 is returned and no later strategy is run; the
\* unfiltered strategy is attempted only when no widget_field was supplied;
\* when no strategy yields a positive day (and the last one has not failed)
\* the empty list is returned.
C25_FirstYieldingStrategy ==
    LotusReturned =>
        /\ Len(Attempted) >= 1
        /\ Attempted = SubSeq(Planned, 1, Len(Attempted))
        /\ (\E i \in 1..Len(Attempted) : Attempted[i] = "unfiltered") =>
              args.widget_field \in {"None", ""}
        /\ \A j \in 1..Len(Planned) :
              (Yields(Planned[j]) /\ \A i \in 1..(j - 1) : ~Yields(Planned[i])) =>
                  /\ Attempted = SubSeq(Planned, 1, j)
                  /\ result = [returned |-> SeriesOf(Planned[j])]
        /\ ((\A j \in 1..Len(Planned) : ~Yields(Planned[j]))
               /\ ~Failed(Planned[Len(Planned)])) =>
                  /\ Attempted = Planned
                  /\ result = [returned |-> <<>>]

\* C25 witness: with a widget field given, the first strategy returned a
\* day of count 0 only and the second one's series was returned; the
\* unfiltered strategy, which would have yielded too, was not run.
C25_Witness ==
    /\ LotusReturned
    /\ args.widget_field = "eventProperties.widgetName"
    /\ ~Failed("widget_field_filter")
    /\ args.responses["widget_field_filter"].buckets # <<>>
    /\ Yields("store_id_filter")
    /\ Yields("unfiltered")
    /\ Attempted = <<"widget_field_filter", "store_id_filter">>
    /\ result = [returned |-> SeriesOf("store_id_filter")]

\* C26: an exception raised while building or executing a strategy is
\* suppressed and the next strategy is tried iff the failing strategy is not
\* the last in the list; an exception in the last attempted strategy
\* propagates to the caller.  Hence a failure of an earlier strategy
\* followed by a last strategy that returns no positive day yields the
\* empty list with no error reported.
C26_OnlyLastFailurePropagates ==
    LotusReturned =>
        /\ \A j \in 1..Len(Attempted) :
              (Failed(Planned[j]) /\ j < Len(Planned)) =>
                  /\ j < Len(Attempted)
                  /\ Attempted[j + 1] = Planned[j + 1]
        /\ ("raised" \in DOMAIN result) <=>
              (Len(Attempted) = Len(Planned) /\ Failed(Planned[Len(Planned)]))
        /\ "raised" \in DOMAIN result => result = [raised |-> "Exception"]
        /\ ((\E j \in 1..(Len(Planned) - 1) : Failed(Planned[j]))
               /\ (\A j \in 1..Len(Planned) : ~Yields(Planned[j]))
               /\ ~Failed(Planned[Len(Planned)])) =>
                  result = [returned |-> <<>>]

\* C26 witness: the first two strategies failed, the unfiltered one returned
\* a day of count 0, and the caller got the empty list.
C26_Witness ==
    /\ LotusReturned
    /\ Failed("widget_field_filter")
    /\ Failed("store_id_filter")
    /\ ~Failed("unfiltered")
    /\ args.responses["unfiltered"].buckets # <<>>
    /\ Attempted = <<"widget_field_filter", "store_id_filter", "unfiltered">>
    /\ result = [returned |-> <<>>]

\* ------------------------------------------------------------------
\* es_fetch.search_all: pagination with search_after.
\*
\* A hit is a record [id, sort]; sort is the hit's "sort" list, <<>> when
\* the hit carries none (hits[-1].get("sort") is then None).  A dsl is a
\* record of the top-level keys the function touches, each <<>> when the
\* key is absent.  The backend holds args.docs in its sort order and
\* answers a request from the dsl it receives.
\* ------------------------------------------------------------------

MaxDocs == 4
MaxSort == 3
MaxBatch == 2
MaxMaxDocs == 3

\* The default sort of the function, [{"createdAt": "asc"}, {"_id": "asc"}].
DefaultSort == <<"createdAt", "_id">>

Absent == <<>>

\* dsl = dict(dsl): the caller's mapping after the call; the copy receives
\* every assignment.
CallerDslAliased(dsl, prepared) == prepared

CallerDsl(dsl, prepared) == dsl

\* Lines 74-84: the dsl of the first request.
PrepareDsl(dsl, sort, batch_size) ==
    [dsl EXCEPT !.track_total_hits = IF @ = Absent THEN <<"True">> ELSE @,
                !.size = <<batch_size>>,
                !.sort = IF sort # <<>> THEN sort
                         ELSE IF @ = Absent THEN DefaultSort ELSE @]

\* The backend: the hits whose sort value follows the one in search_after
\* (every hit when the request carries none), cut to the requested size.
Follows(hit, search_after) ==
    \/ search_after = Absent
    \/ /\ hit.sort # <<>>
       /\ hit.sort[1] > search_after[1]

Backend(docs, dsl) ==
    Take(SelectSeq(docs, LAMBDA hit : Follows(hit, dsl.search_after)),
         dsl.size[1])

\* Line 102: search_after = hits[-1].get("sort").
NextSearchAfter(hits) == hits[Len(hits)].sort

\* Lines 90-91: if search_after: dsl["search_after"] = search_after.
WithSearchAfter(dsl, search_after) ==
    IF search_after # <<>> THEN [dsl EXCEPT !.search_after = search_after]
    ELSE dsl

\* The state of the loop before an iteration, from what has been sent and
\* received: the dsl copy is the one of the last request, search_after is the
\* value taken from the last page.
LoopDsl(a, sent) ==
    IF sent = <<>> THEN PrepareDsl(a.dsl, a.sort, a.batch_size)
    ELSE sent[Len(sent)]

LoopSearchAfter(all_hits) ==
    IF all_hits = <<>> THEN <<>> ELSE NextSearchAfter(all_hits)

MaxDocsReached(a, all_hits) ==
    a.max_docs.given /\ Len(all_hits) >= a.max_docs.n

\* Mutant of Iteration: the loop also leaves on a page shorter than the
\* requested size.
IterationLeavesOnShortPage(a, sent, all_hits) ==
    LET dsl  == WithSearchAfter(LoopDsl(a, sent), LoopSearchAfter(all_hits))
        hits == Backend(a.docs, dsl)
        all  == all_hits \o hits
    IN  [sent     |-> Append(sent, dsl),
         all_hits |-> IF hits = <<>> THEN all_hits
                      ELSE IF MaxDocsReached(a, all) THEN Take(all, a.max_docs.n)
                      ELSE all,
         exits    |-> hits = <<>> \/ MaxDocsReached(a, all) \/ Len(hits) < dsl.size[1]]

\* One iteration of "while True" (lines 89-104).
Iteration(a, sent, all_hits) ==
    LET dsl  == WithSearchAfter(LoopDsl(a, sent), LoopSearchAfter(all_hits))
        hits == Backend(a.docs, dsl)
        all  == all_hits \o hits
    IN  [sent     |-> Append(sent, dsl),
         all_hits |-> IF hits = <<>> THEN all_hits
                      ELSE IF MaxDocsReached(a, all) THEN Take(all, a.max_docs.n)
                      ELSE all,
         exits    |-> hits = <<>> \/ MaxDocsReached(a, all)]

SortValues == {<<k>> : k \in 1..MaxSort}

Ascending(sorts) ==
    \A i \in 1..(Len(sorts) - 1) : sorts[i][1] <= sorts[i + 1][1]

\* The documents the backend holds, in its sort order; with_sort = FALSE is
\* a backend whose hits carry no sort value.
DocSets ==
    UNION {{[i \in 1..n |-> [id |-> i, sort |-> IF with_sort THEN sorts[i] ELSE <<>>]] :
                sorts \in {s \in [1..n -> SortValues] : Ascending(s)}} :
           n \in 0..MaxDocs, with_sort \in BOOLEAN}

MaxDocsValues ==
    {[given |-> FALSE, n |-> 0]} \cup {[given |-> TRUE, n |-> n] : n \in -1..MaxMaxDocs}

CallerDsls ==
    {[track_total_hits |-> Absent, size |-> Absent, sort |-> Absent, search_after |-> Absent],
     [track_total_hits |-> <<"False">>, size |-> <<0>>, sort |-> <<"timestamp">>, search_after |-> Absent]}

\* The loop of search_all is `while True:` and has no bound of its own.  A
\* call without max_docs whose first page is not empty and whose hits carry
\* no sort value sends the same request and receives the same page for
\* ever: search_after stays None.
NeverReturns(a) ==
    /\ ~a.max_docs.given
    /\ a.batch_size >= 1
    /\ a.docs # <<>>
    /\ \A i \in 1..Len(a.docs) : a.docs[i].sort = <<>>

\* The calls: those of the combinations below on which search_all returns;
\* the runs of the others are infinite.
SearchArgs ==
    {a \in [docs : DocSets, dsl : CallerDsls, sort : {<<>>, <<"createdAt">>},
            batch_size : 0..MaxBatch, max_docs : MaxDocsValues] : ~NeverReturns(a)}

\* The state on entry of search_all, before the first iteration.
InitSearch ==
    /\ pc = "search_all"
    /\ args \in SearchArgs
    /\ keys = {}
    /\ drivers = NoDrivers
    /\ rca = NoRca
    /\ daily_sums = <<>>
    /\ calls = <<>>
    /\ result = <<>>
    /\ fp = NoRounding
    /\ heap = NoHeap

\* One pass through the loop body: a request is sent, the page is appended,
\* and the loop either goes on or the function returns result.
SearchAllIteration ==
    /\ pc = "search_all"
    /\ LET step == Iteration(args, calls, result)
       IN  /\ calls' = step.sent
           /\ result' = step.all_hits
           /\ pc' = IF step.exits THEN "returned" ELSE "search_all"
           /\ args' = [args EXCEPT !.dsl = CallerDsl(@, step.sent[Len(step.sent)])]
    /\ UNCHANGED <<fp, heap, keys, drivers, rca, daily_sums>>

NextSearch == SearchAllIteration

SpecSearch == InitSearch /\ [][NextSearch]_vars

\* The loop keeps running while it has not returned.
SpecSearchFair == SpecSearch /\ WF_vars(SearchAllIteration)

\* ------------------------------------------------------------------
\* Claims about search_all (SpecSearch, SpecSearchFair).
\* ------------------------------------------------------------------

SearchReturned == pc = "returned"

\* The hits of the pages received for the requests sent, in that order.
RECURSIVE ReceivedHits(_, _)
ReceivedHits(docs, sent) ==
    IF sent = <<>> THEN <<>>
    ELSE ReceivedHits(docs, SubSeq(sent, 1, Len(sent) - 1))
             \o Backend(docs, sent[Len(sent)])

LastPageEmpty ==
    calls # <<>> /\ Backend(args.docs, calls[Len(calls)]) = <<>>

ReachedMaxDocs ==
    args.max_docs.given /\ Len(ReceivedHits(args.docs, calls)) >= args.max_docs.n

EveryHitCarriesSort == \A i \in 1..Len(args.docs) : args.docs[i].sort # <<>>

SortValuesDistinct ==
    \A i, j \in 1..Len(args.docs) :
        i # j => args.docs[i].sort # args.docs[j].sort

Occurrences(hit, hits) == Cardinality({i \in 1..Len(hits) : hits[i] = hit})

EveryHitExactlyOnce ==
    /\ Len(result) = Len(args.docs)
    /\ \A i \in 1..Len(args.docs) : Occurrences(args.docs[i], result) = 1

\* The loop leaves exactly on an empty page or on reaching max_docs.
ExitsOnlyOnEmptyPageOrMaxDocs ==
    calls # <<>> => (SearchReturned <=> (LastPageEmpty \/ ReachedMaxDocs))

\* C27 as stated: when every hit carries a sort value, search_all returns,
\* and a run that ends on an empty page has returned every document of the
\* backend exactly once, in the order of the pages; the loop leaves only on
\* an empty page or on reaching max_docs.
C27_EveryHitOnceForAnySort ==
    /\ EveryHitCarriesSort ~> SearchReturned
    /\ [](ExitsOnlyOnEmptyPageOrMaxDocs)
    /\ []((SearchReturned /\ EveryHitCarriesSort /\ LastPageEmpty)
            => (EveryHitExactlyOnce /\ result = ReceivedHits(args.docs, calls)))

\* C27, amended: the same, for a batch_size of at least 1 and sort values
\* that differ from hit to hit.  Two hits with one sort value on either
\* side of a page boundary, or a batch_size of 0, end the loop on an empty
\* page before every document was returned.
C27_EveryHitOnceForDistinctSort ==
    /\ EveryHitCarriesSort ~> SearchReturned
    /\ [](ExitsOnlyOnEmptyPageOrMaxDocs)
    /\ []((SearchReturned /\ EveryHitCarriesSort /\ LastPageEmpty
             /\ SortValuesDistinct /\ args.batch_size >= 1)
            => (EveryHitExactlyOnce /\ result = ReceivedHits(args.docs, calls)))

\* Three documents came back in two pages and a third, empty page ended the loop.
C27_Witness ==
    /\ SearchReturned
    /\ EveryHitCarriesSort /\ SortValuesDistinct
    /\ ~args.max_docs.given
    /\ args.batch_size = MaxBatch
    /\ Len(args.docs) = MaxSort
    /\ Len(calls) = 3
    /\ LastPageEmpty
    /\ result = args.docs

\* The number of hits received for the first k requests.
ReceivedAfter(k) == Len(ReceivedHits(args.docs, SubSeq(calls, 1, k)))

NoRequestAfterMaxDocs ==
    \A k \in 1..(Len(calls) - 1) : ReceivedAfter(k) < args.max_docs.n

\* C28: with max_docs given (0 or more), search_all returns at most max_docs
\* hits, the first max_docs of the hits in the order the pages were
\* received; no request follows the page that brought the number of hits
\* to max_docs; the caller's dsl is the same mapping after every step.
C28_AtMostMaxDocs ==
    /\ []((args.max_docs.given /\ args.max_docs.n >= 0)
            => /\ NoRequestAfterMaxDocs
               /\ SearchReturned =>
                    /\ Len(result) <= args.max_docs.n
                    /\ result = Take(ReceivedHits(args.docs, calls), args.max_docs.n))
    /\ [][args'.dsl = args.dsl]_vars

\* The second page brought the hits to more than max_docs: the result was
\* cut to max_docs, no third request was sent, and the request carried a
\* size and a sort the caller's dsl does not have.
C28_Witness ==
    /\ SearchReturned
    /\ args.max_docs.given /\ args.max_docs.n = MaxMaxDocs
    /\ args.batch_size = MaxBatch
    /\ Len(calls) = 2
    /\ Len(ReceivedHits(args.docs, calls)) > args.max_docs.n
    /\ Len(result) = args.max_docs.n
    /\ args.dsl.size = Absent
    /\ calls[2].size # Absent /\ calls[2].search_after # Absent

\* ------------------------------------------------------------------
\* store_lookup.get_store_id_from_name.
\*
\* A name is the sequence of its characters.  The configuration is what
\* load_stores_config meets: the exception it raises (or "None") and the
\* "stores" list of the file, each store a record [storeId, storeName,
\* aliases]; a store without "storeName" has the default "" (<<>>).
\* ------------------------------------------------------------------

MaxStores == 2

\* str.lower() on one character
LowerChar(c) ==
    CASE c = "A" -> "a"
      [] c = "B" -> "b"
      [] OTHER -> c

\* normalize_store_name: name.lower().strip()
NormalizeStoreName(name) == Strip([i \in 1..Len(name) |-> LowerChar(name[i])])

\* x in y, for strings
IsSubstring(x, y) ==
    \E i \in 0..(Len(y) - Len(x)) : SubSeq(y, i + 1, i + Len(x)) = x

\* The exceptions caught at line 58.
CaughtOnLoad == {"FileNotFoundError", "JSONDecodeError"}

\* First pass (lines 64-67): the first store from position i on whose
\* storeName is the input; 0 when the loop ends without returning.
RECURSIVE ExactNamePass(_, _, _)
ExactNamePass(stores, input, i) ==
    IF i > Len(stores) THEN 0
    ELSE IF NormalizeStoreName(stores[i].storeName) = input THEN i
    ELSE ExactNamePass(stores, input, i + 1)

\* Second pass (lines 73-77): the first store with an alias that is the input.
RECURSIVE AliasPass(_, _, _)
AliasPass(stores, input, i) ==
    IF i > Len(stores) THEN 0
    ELSE IF \E k \in 1..Len(stores[i].aliases) :
                NormalizeStoreName(stores[i].aliases[k]) = input THEN i
    ELSE AliasPass(stores, input, i + 1)

\* The test of the third pass on one normalized name.
PartialMatch(input, name) == IsSubstring(input, name) \/ IsSubstring(name, input)

\* Third pass (lines 80-89): the first store whose storeName or one of whose
\* aliases contains the input or is contained in it.
RECURSIVE PartialPass(_, _, _)
PartialPass(stores, input, i) ==
    IF i > Len(stores) THEN 0
    ELSE IF \/ PartialMatch(input, NormalizeStoreName(stores[i].storeName))
            \/ \E k \in 1..Len(stores[i].aliases) :
                   PartialMatch(input, NormalizeStoreName(stores[i].aliases[k]))
         THEN i
    ELSE PartialPass(stores, input, i + 1)

Returns(value) == [raised |-> "None", value |-> value]

Raises(exception) == [raised |-> exception, value |-> "None"]

\* get_store_id_from_name with the second and third pass exchanged.
GetStoreIdFromNamePartialFirst(store_name, fuzzy, config) ==
    IF store_name = <<>> THEN Returns("None")
    ELSE IF config.load \in CaughtOnLoad THEN Returns("None")
    ELSE IF config.load # "None" THEN Raises(config.load)
    ELSE
      LET input   == NormalizeStoreName(store_name)
          exact   == ExactNamePass(config.stores, input, 1)
          alias   == AliasPass(config.stores, input, 1)
          partial == PartialPass(config.stores, input, 1)
      IN  IF exact # 0 THEN Returns(config.stores[exact].storeId)
          ELSE IF ~fuzzy THEN Returns("None")
          ELSE IF partial # 0 THEN Returns(config.stores[partial].storeId)
          ELSE IF alias # 0 THEN Returns(config.stores[alias].storeId)
          ELSE Returns("None")

\* get_store_id_from_name (lines 41-91)
GetStoreIdFromName(store_name, fuzzy, config) ==
    IF store_name = <<>> THEN Returns("None")
    ELSE IF config.load \in CaughtOnLoad THEN Returns("None")
    ELSE IF config.load # "None" THEN Raises(config.load)
    ELSE
      LET input   == NormalizeStoreName(store_name)
          exact   == ExactNamePass(config.stores, input, 1)
          alias   == AliasPass(config.stores, input, 1)
          partial == PartialPass(config.stores, input, 1)
      IN  IF exact # 0 THEN Returns(config.stores[exact].storeId)
          ELSE IF ~fuzzy THEN Returns("None")
          ELSE IF alias # 0 THEN Returns(config.stores[alias].storeId)
          ELSE IF partial # 0 THEN Returns(config.stores[partial].storeId)
          ELSE Returns("None")

StoreIds == [i \in 1..(MaxStores + 1) |-> <<"S1", "S2", "S3", "S4">>[i]]

ConfigNames == {<<>>, <<"a">>, <<"A", " ">>, <<"b">>, <<"a", "b">>}

ConfigAliases == {<<>>, << <<"a">> >>, << <<"c">>, <<"A", "b">> >>}

AskedNames ==
    {<<>>, <<" ">>, <<"a">>, <<" ", "A">>, <<"b">>, <<"a", "b">>, <<"c">>}

StoreLists ==
    UNION {{[i \in 1..n |-> [storeId |-> StoreIds[i], storeName |-> names[i],
                              aliases |-> aliases[i]]] :
                names \in [1..n -> ConfigNames], aliases \in [1..n -> ConfigAliases]} :
           n \in 0..MaxStores}

\* What load_stores_config meets: a file with a "stores" list, no file, a
\* file that is not JSON, or a file whose bytes are not UTF-8.
Configs ==
    {[load |-> "None", stores |-> stores] : stores \in StoreLists}
      \cup {[load |-> e, stores |-> <<>>] :
                e \in {"FileNotFoundError", "JSONDecodeError", "UnicodeDecodeError"}}

LookupArgs == [store_name : AskedNames, fuzzy : BOOLEAN, config : Configs]

InitLookup ==
    /\ pc = "start"
    /\ args \in LookupArgs
    /\ keys = {}
    /\ drivers = NoDrivers
    /\ rca = NoRca
    /\ daily_sums = <<>>
    /\ calls = <<>>
    /\ result = Returns("pending")
    /\ fp = NoRounding
    /\ heap = NoHeap

\* A call get_store_id_from_name(args.store_name, args.fuzzy).
CallGetStoreIdFromName ==
    /\ pc = "start"
    /\ pc' = "get_store_id_from_name"
    /\ result' = GetStoreIdFromName(args.store_name, args.fuzzy, args.config)
    /\ UNCHANGED <<fp, heap, args, keys, drivers, rca, daily_sums, calls>>

NextLookup == CallGetStoreIdFromName

SpecLookup == InitLookup /\ [][NextLookup]_vars

\* ------------------------------------------------------------------
\* Claims about get_store_id_from_name (SpecLookup).
\* ------------------------------------------------------------------

LookupReturned == pc = "get_store_id_from_name"

Asked == NormalizeStoreName(args.store_name)

StoreCount == Len(args.config.stores)

NameIs(i) == NormalizeStoreName(args.config.stores[i].storeName) = Asked

AliasIs(i) ==
    \E k \in 1..Len(args.config.stores[i].aliases) :
        NormalizeStoreName(args.config.stores[i].aliases[k]) = Asked

Overlaps(name) ==
    IsSubstring(Asked, NormalizeStoreName(name))
      \/ IsSubstring(NormalizeStoreName(name), Asked)

PartlyIs(i) ==
    \/ Overlaps(args.config.stores[i].storeName)
    \/ \E k \in 1..Len(args.config.stores[i].aliases) :
           Overlaps(args.config.stores[i].aliases[k])

NameStores == {i \in 1..StoreCount : NameIs(i)}

AliasStores == {i \in 1..StoreCount : AliasIs(i)}

PartialStores == {i \in 1..StoreCount : PartlyIs(i)}

\* The result is the storeId of the first store of the set.
ResolvesToFirstOf(found) ==
    \E i \in found :
        /\ \A j \in found : i <= j
        /\ result = Returns(args.config.stores[i].storeId)

\* The answer of the three passes in their order of priority.
ResolvedByPriority ==
    IF NameStores # {} THEN ResolvesToFirstOf(NameStores)
    ELSE IF ~args.fuzzy THEN result = Returns("None")
    ELSE IF AliasStores # {} THEN ResolvesToFirstOf(AliasStores)
    ELSE IF PartialStores # {} THEN ResolvesToFirstOf(PartialStores)
    ELSE result = Returns("None")

\* C29 as stated: a non-empty input on a loaded configuration resolves by
\* the priority exact storeName, exact alias, substring, the first store in
\* configuration order winning within a pass and only the storeName pass
\* used with fuzzy=False; an empty input, and a configuration that cannot
\* be read for whatever reason, yield None.
C29_AnyUnreadableConfigYieldsNone ==
    LookupReturned =>
        IF args.store_name = <<>> \/ args.config.load # "None"
        THEN result = Returns("None")
        ELSE ResolvedByPriority

\* C29, amended: the same resolution; an empty input, a missing
\* configuration file and one that is not JSON yield None, and any other
\* failure to read the file leaves the function as an exception.
C29_PassPriority ==
    LookupReturned =>
        IF args.store_name = <<>> \/ args.config.load \in CaughtOnLoad
        THEN result = Returns("None")
        ELSE IF args.config.load # "None" THEN result = Raises(args.config.load)
        ELSE ResolvedByPriority

\* The first store matches by substring, the second by alias: the second wins.
C29_Witness ==
    /\ LookupReturned
    /\ args.fuzzy /\ args.config.load = "None"
    /\ NameStores = {}
    /\ 1 \in PartialStores /\ 1 \notin AliasStores /\ 2 \in AliasStores
    /\ args.store_name # Asked
    /\ result = Returns(StoreIds[2])

\* ------------------------------------------------------------------
\* agent_runner.detect_counter_event and get_event_total.
\*
\* A search response is a record with raised = TRUE when search() raised.
\* A hit of the sample is [eventProperties, keys]: eventProperties is
\* "absent", "null" or "object", keys the keys of the object.  The sum
\* response carries the aggregation value (present = FALSE: missing or
\* null); the count response carries hits.total as an integer, as
\* {"value": n}, or not at all.
\* ------------------------------------------------------------------

MaxSampled == 2
MaxEventTotal == 2

\* props = hit.get("_source", {}).get("eventProperties", {}) or {}
EventProperties(hit) ==
    IF hit.eventProperties = "object" THEN hit.keys ELSE {}

\* The loop of detect_counter_event looking at the first hit only.
SampleHasCountFirstOnly(hits, i) ==
    hits # <<>> /\ "count" \in EventProperties(hits[1])

\* Lines 130-134: the loop over the sampled hits, from hit i on.
RECURSIVE SampleHasCount(_, _)
SampleHasCount(hits, i) ==
    IF i > Len(hits) THEN FALSE
    ELSE IF "count" \in EventProperties(hits[i]) THEN TRUE
    ELSE SampleHasCount(hits, i + 1)

\* detect_counter_event (lines 112-134)
DetectCounterEvent(resp) ==
    IF resp.raised THEN FALSE ELSE SampleHasCount(resp.hits, 1)

\* _extract_sum_count (lines 108-109)
ExtractSumCount(resp) == IF resp.present THEN resp.value ELSE 0

\* _extract_total_hits (lines 86-91)
ExtractTotalHits(resp) ==
    IF resp.total \in {"int", "dict"} THEN resp.value ELSE 0

\* get_event_total (lines 137-148): the searches made and the outcome.
GetEventTotal(a) ==
    LET is_counter == DetectCounterEvent(a.detect)
        resp       == IF is_counter THEN a.sum ELSE a.count
    IN  [calls  |-> <<"detect_counter_event",
                      IF is_counter THEN "build_event_sum_count_dsl"
                      ELSE "build_event_count_dsl">>,
         output |-> [raised |-> resp.raised, is_counter |-> is_counter,
                     value |-> IF resp.raised THEN 0
                               ELSE IF is_counter THEN ExtractSumCount(a.sum)
                               ELSE ExtractTotalHits(a.count)]]

SampledHits ==
    {[eventProperties |-> "absent", keys |-> {}],
     [eventProperties |-> "null", keys |-> {}],
     [eventProperties |-> "object", keys |-> {"widgetName"}],
     [eventProperties |-> "object", keys |-> {"widgetName", "count"}]}

DetectResponses ==
    {[raised |-> TRUE, hits |-> <<>>]}
      \cup UNION {{[raised |-> FALSE, hits |-> hits] : hits \in [1..n -> SampledHits]} :
                  n \in 0..MaxSampled}

SumResponses ==
    {[raised |-> TRUE, present |-> FALSE, value |-> 0],
     [raised |-> FALSE, present |-> FALSE, value |-> 0]}
      \cup {[raised |-> FALSE, present |-> TRUE, value |-> v] : v \in 0..MaxEventTotal}

\* The document count is drawn above the sums so that the two totals differ.
CountResponses ==
    {[raised |-> TRUE, total |-> "absent", value |-> 0],
     [raised |-> FALSE, total |-> "absent", value |-> 0]}
      \cup {[raised |-> FALSE, total |-> t, value |-> MaxEventTotal + v] :
                t \in {"int", "dict"}, v \in 1..MaxEventTotal}

EventArgs == [detect : DetectResponses, sum : SumResponses, count : CountResponses]

NoTotal == [raised |-> FALSE, is_counter |-> FALSE, value |-> 0]

InitEvent ==
    /\ pc = "start"
    /\ args \in EventArgs
    /\ keys = {}
    /\ drivers = NoDrivers
    /\ rca = NoRca
    /\ daily_sums = <<>>
    /\ calls = <<>>
    /\ result = NoTotal
    /\ fp = NoRounding
    /\ heap = NoHeap

\* A call detect_counter_event(...): one search, the answer in is_counter.
CallDetectCounterEvent ==
    /\ pc = "start"
    /\ pc' = "detect_counter_event"
    /\ calls' = <<"search">>
    /\ result' = [NoTotal EXCEPT !.is_counter = DetectCounterEvent(args.detect)]
    /\ UNCHANGED <<fp, heap, args, keys, drivers, rca, daily_sums>>

\* A call get_event_total(...).
CallGetEventTotal ==
    /\ pc = "start"
    /\ pc' = "get_event_total"
    /\ calls' = GetEventTotal(args).calls
    /\ result' = GetEventTotal(args).output
    /\ UNCHANGED <<fp, heap, args, keys, drivers, rca, daily_sums>>

NextEvent == CallDetectCounterEvent \/ CallGetEventTotal

SpecEvent == InitEvent /\ [][NextEvent]_vars

\* ------------------------------------------------------------------
\* Claims about detect_counter_event and get_event_total (SpecEvent).
\* ------------------------------------------------------------------

SearchSucceeds == ~args.detect.raised

SomeSampledHitHasCount ==
    \E i \in 1..Len(args.detect.hits) :
        /\ args.detect.hits[i].eventProperties = "object"
        /\ "count" \in args.detect.hits[i].keys

Detected == SearchSucceeds /\ SomeSampledHitHasCount

\* C30: detect_counter_event never raises; it returns True exactly when
\* the search succeeds and some sampled hit has "count" among its
\* eventProperties, so False when the search fails.  get_event_total then
\* returns the sum of eventProperties.count when the detection is True and
\* the total document hit count otherwise (whenever its own search
\* succeeds).
C30_DetectionAndTotal ==
    /\ pc = "detect_counter_event" =>
         /\ ~result.raised
         /\ result.is_counter <=> Detected
    /\ pc = "get_event_total" =>
         /\ result.is_counter <=> Detected
         /\ (Detected /\ ~args.sum.raised) =>
              result = [raised |-> FALSE, is_counter |-> TRUE,
                        value |-> IF args.sum.present THEN args.sum.value ELSE 0]
         /\ (~Detected /\ ~args.count.raised) =>
              result = [raised |-> FALSE, is_counter |-> FALSE,
                        value |-> IF args.count.total = "absent" THEN 0
                                  ELSE args.count.value]

\* The detection search failed, and get_event_total returned the document
\* count although the sum of the counts was there to be had.
C30_Witness ==
    /\ pc = "get_event_total"
    /\ args.detect.raised
    /\ ~args.sum.raised /\ args.sum.present /\ args.sum.value = MaxEventTotal
    /\ ~args.count.raised /\ args.count.total = "dict"
    /\ result = [raised |-> FALSE, is_counter |-> FALSE, value |-> args.count.value]
    /\ calls = <<"detect_counter_event", "build_event_count_dsl">>

====
